---- MODULE Spec2Model ----
(***************************************************************************)
(* A model of the media-retrieval orchestration layer of musicvault-api:   *)
(*   - YTDLPHandler (src/ytdlp_handler.py): the download task registry,    *)
(*     the progress hook, cancellation, the strategy fallback of           *)
(*     extract_info and the metadata normalizer;                           *)
(*   - the background audio download of src/server.py.                     *)
(* Python's Optional values are modelled as sequences of length at most 1: *)
(* None is << >> and a value v is <<v>>.                                    *)
(***************************************************************************)
EXTENDS Integers, Sequences, FiniteSets, TLC

VARIABLES
    active_tasks,         \* YTDLPHandler.active_tasks: task_id -> DownloadTask
    progress_callbacks,   \* YTDLPHandler._progress_callbacks (its key set)
    pc,                   \* task_id -> position of download_video's coroutine
    engine_info,          \* task_id -> the local `info` of download_video while it runs
    engine_opts,          \* task_id -> the call's format arguments and the selector given to the engine
    ret,                  \* value handed back by the call that was the last step
    ex,                   \* the position and locals of one extract_info call
    download_status,      \* server.py download_status: video_id -> state
    cache_files,          \* the files of server.py's CACHE_DIR
    threads,              \* the download_audio threads of server.py
    fn                    \* a call of a pure function: its input and, once applied, its result

taskVars == <<active_tasks, progress_callbacks, pc, engine_info, engine_opts, ret>>
extractVars == <<ex>>
audioVars == <<download_status, cache_files, threads>>
vars == <<active_tasks, progress_callbacks, pc, engine_info, engine_opts, ret, ex,
          download_status, cache_files, threads, fn>>

----------------------------------------------------------------------------
(* Optional values and strings *)

None == << >>
Some(v) == <<v>>
IsNone(o) == o = << >>
Val(o) == o[1]

\* Python's `needle in haystack` on str
Contains(haystack, needle) ==
    \E i \in 1..(Len(haystack) - Len(needle) + 1) :
        SubSeq(haystack, i, i + Len(needle) - 1) = needle

LowerChar(c) ==
    CASE c = "A" -> "a" [] c = "B" -> "b" [] c = "C" -> "c" [] c = "D" -> "d"
      [] c = "E" -> "e" [] c = "F" -> "f" [] c = "G" -> "g" [] c = "H" -> "h"
      [] c = "I" -> "i" [] c = "J" -> "j" [] c = "K" -> "k" [] c = "L" -> "l"
      [] c = "M" -> "m" [] c = "N" -> "n" [] c = "O" -> "o" [] c = "P" -> "p"
      [] c = "Q" -> "q" [] c = "R" -> "r" [] c = "S" -> "s" [] c = "T" -> "t"
      [] c = "U" -> "u" [] c = "V" -> "v" [] c = "W" -> "w" [] c = "X" -> "x"
      [] c = "Y" -> "y" [] c = "Z" -> "z" [] OTHER -> c

\* Python's str.lower()
RECURSIVE Lower(_)
Lower(s) ==
    IF Len(s) = 0 THEN ""
    ELSE LowerChar(SubSeq(s, 1, 1)) \o Lower(SubSeq(s, 2, Len(s)))

----------------------------------------------------------------------------
(* get_friendly_error *)

AuthMessage == "YouTube requires authentication. Please check cookie file."
FormatMessage == "Requested format not available. Trying alternative..."

get_friendly_error_format_first(error_msg) ==
    IF Contains(Lower(error_msg), "format") THEN FormatMessage
    ELSE IF Contains(error_msg, "Sign in") \/ Contains(error_msg, "bot")
         THEN AuthMessage
    ELSE error_msg

get_friendly_error(error_msg) ==
    IF Contains(error_msg, "Sign in") \/ Contains(error_msg, "bot")
        THEN AuthMessage
    ELSE IF Contains(Lower(error_msg), "format") THEN FormatMessage
    ELSE error_msg

----------------------------------------------------------------------------
(* Raw engine metadata.  A dict is a record whose fields are Absent (the   *)
(* key is missing) or Present(v) with v the Optional value stored.         *)

Absent == << >>
Present(v) == <<v>>
\* dict.get(key, default); default is an Optional value
Get(d, key, default) == IF d[key] = Absent THEN default ELSE d[key][1]
TruthyStr(o) == o # None /\ Val(o) # ""
TruthyInt(o) == o # None /\ Val(o) # 0

NoneLowerError == "'NoneType' object has no attribute 'lower'"
NoneGetError == "'NoneType' object has no attribute 'get'"
NoneLenError == "object of type 'NoneType' has no len()"

Digits == <<"0", "1", "2", "3", "4", "5", "6", "7", "8", "9">>
IsDigit(c) == \E i \in 1..10 : Digits[i] = c
DigitVal(c) == (CHOOSE i \in 1..10 : Digits[i] = c) - 1

\* int(float(s)) for a string of decimal digits; anything else is a ValueError,
\* reported as None
RECURSIVE ParseDigits(_, _)
ParseDigits(s, acc) ==
    IF Len(s) = 0 THEN Some(acc)
    ELSE IF IsDigit(SubSeq(s, 1, 1))
         THEN ParseDigits(SubSeq(s, 2, Len(s)), acc * 10 + DigitVal(SubSeq(s, 1, 1)))
         ELSE None
ParseInt(s) == IF Len(s) = 0 THEN None ELSE ParseDigits(s, 0)

\* s.split('x')[1]: the text between the first and the second 'x' (None when
\* s holds no 'x': the IndexError)
RECURSIVE UpToX(_)
UpToX(s) ==
    IF Len(s) = 0 \/ SubSeq(s, 1, 1) = "x" THEN ""
    ELSE SubSeq(s, 1, 1) \o UpToX(SubSeq(s, 2, Len(s)))
RECURSIVE AfterFirstX(_)
AfterFirstX(s) ==
    IF Len(s) = 0 THEN None
    ELSE IF SubSeq(s, 1, 1) = "x" THEN Some(UpToX(SubSeq(s, 2, Len(s))))
    ELSE AfterFirstX(SubSeq(s, 2, Len(s)))

\* get_resolution_height / safe_get_height
get_resolution_height(f) ==
    IF f.resolution # None /\ Contains(Val(f.resolution), "x")
    THEN LET part == AfterFirstX(Val(f.resolution))
             n == IF part = None THEN None ELSE ParseInt(Val(part))
         IN IF n = None THEN 0 ELSE Val(n)
    ELSE 0

DeniedExts == {"mhtml", "html", "json", "none"}

\* the first statements of the loop body that can raise (lines 337, 342)
FormatRaises(fmt) ==
    /\ TruthyStr(Get(fmt, "format_id", None))
    /\ \/ Get(fmt, "format_note", Some("")) = None
       \/ /\ ~Contains(Lower(Val(Get(fmt, "format_note", Some("")))), "storyboard")
          /\ Get(fmt, "ext", Some("")) = None

is_video_only_of(fmt) ==
    Get(fmt, "vcodec", Some("none")) # Some("none") /\ Get(fmt, "acodec", Some("none")) = Some("none")
is_audio_only_of(fmt) ==
    Get(fmt, "vcodec", Some("none")) = Some("none") /\ Get(fmt, "acodec", Some("none")) # Some("none")

\* the `continue` conditions of the loop (lines 333-361), for a format that
\* does not raise
FormatKept(fmt) ==
    /\ TruthyStr(Get(fmt, "format_id", None))
    /\ ~Contains(Lower(Val(Get(fmt, "format_note", Some("")))), "storyboard")
    /\ Lower(Val(Get(fmt, "ext", Some("")))) \notin DeniedExts
    /\ ~(Get(fmt, "vcodec", Some("none")) = Some("none") /\ Get(fmt, "acodec", Some("none")) = Some("none"))
    /\ ~(TruthyInt(Get(fmt, "height", None)) /\ ~is_audio_only_of(fmt)
           /\ Val(Get(fmt, "height", None)) < 144)

\* the thresholds with 2160 and 1440 compared strictly
HeightLabelStrictAbove(h) ==
    IF h > 2160 THEN "4K"
    ELSE IF h > 1440 THEN "2K"
    ELSE IF h >= 1080 THEN "1080p HD"
    ELSE IF h >= 720 THEN "720p HD"
    ELSE IF h >= 480 THEN "480p"
    ELSE IF h >= 360 THEN "360p"
    ELSE IF h >= 240 THEN "240p"
    ELSE ToString(h) \o "p"
\* lines 364-380
HeightLabel(h) ==
    IF h >= 2160 THEN "4K"
    ELSE IF h >= 1440 THEN "2K"
    ELSE IF h >= 1080 THEN "1080p HD"
    ELSE IF h >= 720 THEN "720p HD"
    ELSE IF h >= 480 THEN "480p"
    ELSE IF h >= 360 THEN "360p"
    ELSE IF h >= 240 THEN "240p"
    ELSE ToString(h) \o "p"

quality_label_of(fmt) ==
    LET height == Get(fmt, "height", None)
        abr == Get(fmt, "abr", Some(0))
    IN IF TruthyInt(height)
       THEN Some(HeightLabel(Val(height)))
       ELSE IF is_audio_only_of(fmt)
       THEN IF TruthyInt(abr) THEN Some("Audio " \o ToString(Val(abr)) \o "kbps")
            ELSE Some("Audio")
       ELSE Get(fmt, "format_note", Some("Unknown"))

resolution_of(fmt) ==
    LET width == Get(fmt, "width", None)
        height_val == Get(fmt, "height", None)
    IN IF TruthyInt(height_val)
       THEN Some((IF TruthyInt(width) THEN ToString(Val(width)) ELSE "?")
                 \o "x" \o ToString(Val(height_val)))
       ELSE None

\* VideoFormat(...) of lines 395-408
VideoFormat(fmt) ==
    LET vcodec == Get(fmt, "vcodec", Some("none"))
        acodec == Get(fmt, "acodec", Some("none"))
    IN [format_id |-> Val(Get(fmt, "format_id", Some(""))),
        ext |-> Get(fmt, "ext", Some("mp4")),
        resolution |-> resolution_of(fmt),
        filesize |-> Get(fmt, "filesize", None),
        filesize_approx |-> Get(fmt, "filesize_approx", None),
        vcodec |-> IF vcodec # Some("none") THEN vcodec ELSE None,
        acodec |-> IF acodec # Some("none") THEN acodec ELSE None,
        fps |-> Get(fmt, "fps", None),
        tbr |-> Get(fmt, "tbr", None),
        quality_label |-> quality_label_of(fmt),
        is_audio_only |-> is_audio_only_of(fmt),
        is_video_only |-> is_video_only_of(fmt)]

RECURSIVE FilterFormats(_)
FilterFormats(raw) ==
    IF raw = << >> THEN << >>
    ELSE IF FormatKept(Head(raw)) THEN <<VideoFormat(Head(raw))>> \o FilterFormats(Tail(raw))
    ELSE FilterFormats(Tail(raw))

tbr_or_0(f) == IF TruthyInt(f.tbr) THEN Val(f.tbr) ELSE 0

\* the sort key without its bitrate component
SortKeyLessWithoutBitrate(a, b) ==
    \/ (~a.is_audio_only /\ b.is_audio_only)
    \/ /\ a.is_audio_only = b.is_audio_only
       /\ get_resolution_height(a) > get_resolution_height(b)

\* the sort key of line 420, compared as Python compares tuples
SortKeyLess(a, b) ==
    \/ (~a.is_audio_only /\ b.is_audio_only)
    \/ /\ a.is_audio_only = b.is_audio_only
       /\ \/ get_resolution_height(a) > get_resolution_height(b)
          \/ /\ get_resolution_height(a) = get_resolution_height(b)
             /\ tbr_or_0(a) > tbr_or_0(b)

\* list.sort(key=...): a stable sort (insertion after the last element that
\* is not greater)
RECURSIVE InsertSorted(_, _)
InsertSorted(sorted, f) ==
    IF sorted = << >> THEN <<f>>
    ELSE IF SortKeyLess(f, Head(sorted)) THEN <<f>> \o sorted
    ELSE <<Head(sorted)>> \o InsertSorted(Tail(sorted), f)
RECURSIVE SortFormats(_, _)
SortFormats(formats, acc) ==
    IF formats = << >> THEN acc
    ELSE SortFormats(Tail(formats), InsertSorted(acc, Head(formats)))

\* the key of line 437
ThumbKey(t) ==
    IF TruthyInt(Get(t, "preference", Some(0))) THEN Val(Get(t, "preference", Some(0)))
    ELSE IF TruthyInt(Get(t, "width", Some(0))) THEN Val(Get(t, "width", Some(0)))
    ELSE 0

\* lines 430-444: sorted(..., reverse=True)[0] is the first candidate of
\* greatest key
best_thumbnail(info) ==
    LET thumbnails == Get(info, "thumbnails", Some(<< >>))
        cands == IF thumbnails = None THEN {}
                 ELSE {i \in 1..Len(Val(thumbnails)) : TruthyStr(Get(Val(thumbnails)[i], "url", None))}
        best == CHOOSE i \in cands :
                    \A j \in cands :
                        \/ ThumbKey(Val(thumbnails)[i]) > ThumbKey(Val(thumbnails)[j])
                        \/ ThumbKey(Val(thumbnails)[i]) = ThumbKey(Val(thumbnails)[j]) /\ i <= j
        thumbnail == IF cands = {} THEN None ELSE Get(Val(thumbnails)[best], "url", None)
    IN IF TruthyStr(thumbnail) THEN thumbnail ELSE Get(info, "thumbnail", None)

\* _parse_video_info raises: info is None, 'formats' is None, or a format
\* of the list raises
ParseRaises(info) ==
    \/ info = None
    \/ Get(Val(info), "formats", Some(<< >>)) = None
    \/ \E i \in 1..Len(Val(Get(Val(info), "formats", Some(<< >>)))) :
           FormatRaises(Val(Get(Val(info), "formats", Some(<< >>)))[i])

ParseError(info) ==
    IF info = None THEN NoneGetError
    ELSE IF Get(Val(info), "formats", Some(<< >>)) = None THEN NoneLenError
    ELSE NoneLowerError

\* _parse_video_info(info, original_url) when it does not raise
parse_video_info(info, original_url) ==
    LET d == Val(info)
        raw_formats == Val(Get(d, "formats", Some(<< >>)))
    IN [id |-> Get(d, "id", Some("")),
        title |-> Get(d, "title", Some("Unknown Title")),
        url |-> original_url,
        thumbnail |-> best_thumbnail(d),
        duration |-> Get(d, "duration", None),
        extractor |-> Get(d, "extractor", None),
        webpage_url |-> Get(d, "webpage_url", Some(original_url)),
        formats |-> SortFormats(FilterFormats(raw_formats), << >>),
        is_live |-> Get(d, "is_live", Some(FALSE))]

----------------------------------------------------------------------------
(* Bounds and sample inputs *)

MaxTasks == 1        \* download_video calls made in one run

DownloadDir == "/cache"

TaskIds == 1..MaxTasks
TaskUrls == {"https://music.youtube.com/watch?v=abc"}

RawFormat(format_id, format_note, ext, vcodec, acodec, height, tbr) ==
    [format_id |-> format_id, format_note |-> format_note, ext |-> ext,
     vcodec |-> vcodec, acodec |-> acodec, height |-> height, width |-> Absent,
     abr |-> Absent, tbr |-> tbr, filesize |-> Absent,
     filesize_approx |-> Absent, fps |-> Absent]

P(v) == Present(Some(v))

Storyboard(id) == RawFormat(P(id), P("Storyboard"), P("mhtml"), P("none"), P("none"), P(90), Absent)
Audio140 == RawFormat(P("140"), P("medium"), P("m4a"), P("none"), P("mp4a"), Absent, P(129))
Video137 == RawFormat(P("137"), P("1080p"), P("mp4"), P("avc1"), P("none"), P(1080), P(4000))
Combined18 == RawFormat(P("18"), P("360p"), P("mp4"), P("avc1"), P("mp4a"), P(360), P(500))
\* a format whose note is present with the value None
NullNote == RawFormat(P("22"), Present(None), P("mp4"), P("avc1"), P("mp4a"), P(720), P(1500))

RawInfo(id, formats) ==
    Some([id |-> P(id), title |-> P("Song"), formats |-> formats,
          thumbnails |-> Absent, thumbnail |-> Absent, duration |-> Absent,
          extractor |-> Absent, webpage_url |-> Absent, is_live |-> Absent])

GoodInfo == RawInfo("abc", P(<<Storyboard("sb0"), Audio140, Video137, Storyboard("sb1"), Combined18>>))
NullNoteInfo == RawInfo("abc", P(<<Audio140, NullNote>>))
EmptyDict ==
    Some([id |-> Absent, title |-> Absent, formats |-> Absent,
          thumbnails |-> Absent, thumbnail |-> Absent, duration |-> Absent,
          extractor |-> Absent, webpage_url |-> Absent, is_live |-> Absent])

\* what the engine can hand back from extract_info(url, download=True)
DownloadInfos == {GoodInfo, NullNoteInfo, None}
CoreInfos == {GoodInfo, NullNoteInfo}

\* the texts of the exceptions the engine raises
EngineErrors ==
    {"ERROR: Sign in to confirm you're not a bot",
     "ERROR: Sign in to access this format",
     "ERROR: Requested Format is not available",
     "ERROR: no video FORMATS found; please sign in",
     "ERROR: HTTP Error 403: Forbidden"}

----------------------------------------------------------------------------
(* DownloadStatus and DownloadTask *)

PENDING == "pending"
EXTRACTING == "extracting"
DOWNLOADING == "downloading"
PROCESSING == "processing"
COMPLETED == "completed"
FAILED == "failed"
CANCELLED == "cancelled"

DownloadStatus == {PENDING, EXTRACTING, DOWNLOADING, PROCESSING, COMPLETED, FAILED, CANCELLED}

DownloadTaskWithDefaultStatus(task_id, url) ==
    [task_id |-> task_id, url |-> url, status |-> PENDING, progress |-> 0,
     speed |-> None, eta |-> None, filename |-> None, filepath |-> None,
     filesize |-> None, error |-> None, video_info |-> None]

\* DownloadTask(task_id=task_id, url=url, status=DownloadStatus.EXTRACTING)
DownloadTask(task_id, url) ==
    [task_id |-> task_id, url |-> url, status |-> EXTRACTING, progress |-> 0,
     speed |-> None, eta |-> None, filename |-> None, filepath |-> None,
     filesize |-> None, error |-> None, video_info |-> None]

Registered == DOMAIN active_tasks

\* f"{speed / 1024 / 1024:.1f} MB/s"
FormatSpeed(n) ==
    LET q == (n * 10) \div 1048576
        r == (n * 10) % 1048576
        tenths == IF 2 * r > 1048576 THEN q + 1
                  ELSE IF 2 * r < 1048576 THEN q
                  ELSE IF q % 2 = 0 THEN q ELSE q + 1
    IN ToString(tenths \div 10) \o "." \o ToString(tenths % 10) \o " MB/s"

\* os.path.basename / split(os.sep)[-1]
RECURSIVE Basename(_)
Basename(path) ==
    IF Contains(path, "/")
    THEN Basename(SubSeq(path, 2, Len(path)))
    ELSE path

\* the progress events the engine delivers to progress_hook
Silent == [speed_str |-> Absent, speed |-> Absent, eta_str |-> Absent, eta |-> Absent]
Metered == [speed_str |-> Absent, speed |-> P(2097152), eta_str |-> P("00:05"), eta |-> P(5)]
SongPath == DownloadDir \o "/Song_abc.m4a"

Event(status, downloaded, total_bytes, estimate, meter, filename) ==
    [status |-> status, downloaded_bytes |-> P(downloaded), total_bytes |-> total_bytes,
     total_bytes_estimate |-> estimate, meter |-> meter, filename |-> filename]

\* one stream reporting half of its bytes, and a stream finishing
CoreEvents ==
    {Event("downloading", 1, P(2), Absent, Metered, P(SongPath)),
     Event("finished", 2, P(2), Absent, Silent, P(SongPath))}

\* total = d.get('total_bytes') or d.get('total_bytes_estimate', 0)
EventTotal(d) ==
    IF TruthyInt(Get(d, "total_bytes", None)) THEN Get(d, "total_bytes", None)
    ELSE Get(d, "total_bytes_estimate", Some(0))

EventSpeed(d) ==
    IF d.meter.speed_str # Absent THEN Get(d.meter, "speed_str", None)
    ELSE IF TruthyInt(Get(d.meter, "speed", None))
         THEN Some(FormatSpeed(Val(Get(d.meter, "speed", None))))
         ELSE None

EventEta(d) ==
    IF d.meter.eta_str # Absent THEN Get(d.meter, "eta_str", None)
    ELSE IF TruthyInt(Get(d.meter, "eta", None))
         THEN Some(ToString(Val(Get(d.meter, "eta", None))) \o "s")
         ELSE None

----------------------------------------------------------------------------
(* YTDLPHandler.download_video, its progress hook, cancel_task *)

\* the contents of download_dir seen by the file lookup after a download:
\* the names os.listdir returns (in its order) with their sizes; `missing`
\* is the directory not existing (os.listdir raises)
Disks ==
    {[missing |-> FALSE, listing |-> << >>],
     [missing |-> FALSE, listing |-> <<[name |-> "Song_abc.m4a", size |-> 5]>>],
     [missing |-> FALSE, listing |-> <<[name |-> "Other_xyz.mp3", size |-> 7],
                                       [name |-> "Song_abc.webm", size |-> 6]>>],
     [missing |-> TRUE, listing |-> << >>]}
CoreDisks ==
    {[missing |-> FALSE, listing |-> <<[name |-> "Song_abc.m4a", size |-> 5]>>],
     [missing |-> TRUE, listing |-> << >>]}

ListDirError == "[Errno 2] No such file or directory: '/cache'"

Exists(disk, path) ==
    \E i \in 1..Len(disk.listing) : DownloadDir \o "/" \o disk.listing[i].name = path
GetSize(disk, path) ==
    LET i == CHOOSE j \in 1..Len(disk.listing) : DownloadDir \o "/" \o disk.listing[j].name = path
    IN disk.listing[i].size

FreshTaskId == CHOOSE t \in TaskIds : t \notin Registered /\ \A u \in TaskIds : u < t => u \in Registered

AudioSelector == "bestaudio[ext=m4a]/bestaudio[ext=mp3]/bestaudio/best"
InstagramSelector == "best[ext=mp4]/bestvideo[ext=mp4]+bestaudio[ext=m4a]/bestvideo+bestaudio/best"
BestSelector == "bestvideo[ext=mp4][vcodec^=avc1]+bestaudio[ext=m4a]/bestvideo[vcodec^=avc1]+bestaudio/best[ext=mp4][vcodec^=avc1]/best[ext=mp4]/best"
MergeSelector(format_id) ==
    format_id \o "+bestaudio[ext=m4a]/" \o format_id \o "+bestaudio/" \o format_id
PlainSelector(format_id) ==
    format_id \o "/best[ext=mp4][vcodec^=avc1]/best[ext=mp4]/best"

\* lines 529-534: the task's own video_info holds a video-only format of
\* that id (next(...) takes the first format of the id)
TaskFormatIsVideoOnly(task, format_id) ==
    /\ task.video_info # None
    /\ LET formats == Val(task.video_info).formats
           hits == {i \in 1..Len(formats) : formats[i].format_id = format_id}
       IN /\ hits # {}
          /\ formats[CHOOSE i \in hits : \A j \in hits : i <= j].is_video_only

\* lines 521-551: format_str; task is self.active_tasks.get(task_id), the
\* task lines 478-480 have just registered
format_str(task, url, format_id, audio_only) ==
    IF audio_only THEN AudioSelector
    ELSE IF format_id # "" /\ format_id # "best"
    THEN IF TaskFormatIsVideoOnly(task, format_id)
         THEN MergeSelector(format_id)
         ELSE PlainSelector(format_id)
    ELSE IF Contains(Lower(url), "instagram.com") \/ Contains(Lower(url), "instagr.am")
         THEN InstagramSelector
         ELSE BestSelector

\* lines 478-483, up to the await of line 589: the task is registered under
\* its new id and the engine's download call is running
RegisterTask(task_id, url, format_id, audio_only, with_callback) ==
    /\ active_tasks' = [t \in Registered \cup {task_id} |->
                           IF t = task_id THEN DownloadTask(task_id, url) ELSE active_tasks[t]]
    /\ progress_callbacks' = IF with_callback THEN progress_callbacks \cup {task_id}
                             ELSE progress_callbacks
    /\ pc' = [t \in Registered \cup {task_id} |-> IF t = task_id THEN "engine" ELSE pc[t]]
    /\ engine_info' = [t \in Registered \cup {task_id} |-> IF t = task_id THEN None ELSE engine_info[t]]
    /\ engine_opts' = [t \in Registered \cup {task_id} |->
                          IF t = task_id
                          THEN [format_id |-> format_id, audio_only |-> audio_only,
                                format |-> format_str(active_tasks'[task_id], url,
                                                      format_id, audio_only)]
                          ELSE engine_opts[t]]
    /\ ret' = None
    /\ UNCHANGED <<ex, download_status, cache_files, threads, fn>>

download_video(url, format_id, audio_only, with_callback) ==
    /\ Cardinality(Registered) < MaxTasks
    /\ RegisterTask(FreshTaskId, url, format_id, audio_only, with_callback)

\* progress_hook(d), lines 485-518: the task after the event
HookDownloadingStatus(task) == DOWNLOADING
HookFinishedStatus(task) == PROCESSING

\* lines 493-494 with the progress reset when the total is not positive
HookProgressResetWhenUnknown(task, d) ==
    IF Val(EventTotal(d)) > 0
    THEN (Val(Get(d, "downloaded_bytes", Some(0))) * 100) \div Val(EventTotal(d))
    ELSE 0
\* lines 493-494: if total > 0: task.progress = (downloaded / total) * 100
HookProgress(task, d) ==
    IF Val(EventTotal(d)) > 0
    THEN (Val(Get(d, "downloaded_bytes", Some(0))) * 100) \div Val(EventTotal(d))
    ELSE task.progress

\* line 493 compares total with 0: a TypeError when both total_bytes and a
\* total_bytes_estimate that is present are None
HookRaises(d) == d.status = "downloading" /\ EventTotal(d) = None
NoneCompareError == "'>' not supported between instances of 'NoneType' and 'int'"

AfterEvent(task, d) ==
    IF d.status = "downloading"
    THEN [task EXCEPT
            !.status = HookDownloadingStatus(task),
            !.progress = HookProgress(task, d),
            !.speed = EventSpeed(d),
            !.eta = EventEta(d),
            !.filename = Some(Basename(Val(Get(d, "filename", Some(""))))),
            !.filepath = Get(d, "filename", None)]
    ELSE IF d.status = "finished"
    THEN [task EXCEPT
            !.status = HookFinishedStatus(task),
            !.progress = 100,
            !.filepath = Get(d, "filename", None),
            !.filename = Some(Basename(Val(Get(d, "filename", Some("")))))]
    ELSE task

\* the hook writing to whatever task the registry holds
progress_hook_on_every_task(t, d) ==
    /\ t \in Registered
    /\ pc[t] = "engine"
    /\ ~HookRaises(d)
    /\ active_tasks' = [u \in Registered |-> AfterEvent(active_tasks[u], d)]
    /\ ret' = None
    /\ UNCHANGED <<progress_callbacks, pc, engine_info, engine_opts, ex, download_status, cache_files, threads, fn>>

\* the engine, running the download in the executor thread, calls the hook
progress_hook(t, d) ==
    /\ t \in Registered
    /\ pc[t] = "engine"
    /\ ~HookRaises(d)
    /\ active_tasks' = [active_tasks EXCEPT ![t] = AfterEvent(@, d)]
    /\ ret' = None
    /\ UNCHANGED <<progress_callbacks, pc, engine_info, engine_opts, ex, download_status, cache_files, threads, fn>>

\* lines 589-592: the engine call returns info and the status is set
download_returns(t, info) ==
    /\ t \in Registered
    /\ pc[t] = "engine"
    /\ active_tasks' = [active_tasks EXCEPT ![t].status = COMPLETED]
    /\ engine_info' = [engine_info EXCEPT ![t] = info]
    /\ pc' = [pc EXCEPT ![t] = "parse"]
    /\ ret' = None
    /\ UNCHANGED <<progress_callbacks, engine_opts, ex, download_status, cache_files, threads, fn>>

FailedWithoutMessage(task, message) == [task EXCEPT !.status = FAILED]

\* lines 608-617: the except clause, the finally clause and the return
Failed(task, message) ==
    [task EXCEPT !.status = FAILED, !.error = Some(get_friendly_error(message))]

\* the engine call raises
download_raises(t, message) ==
    /\ t \in Registered
    /\ pc[t] = "engine"
    /\ active_tasks' = [active_tasks EXCEPT ![t] = Failed(@, message)]
    /\ progress_callbacks' = progress_callbacks \ {t}
    /\ pc' = [pc EXCEPT ![t] = "done"]
    /\ ret' = None
    /\ UNCHANGED <<engine_info, engine_opts, ex, download_status, cache_files, threads, fn>>

\* line 593: task.video_info = self._parse_video_info(info, url)
download_parse(t) ==
    /\ t \in Registered
    /\ pc[t] = "parse"
    /\ IF ParseRaises(engine_info[t])
       THEN /\ active_tasks' = [active_tasks EXCEPT ![t] = Failed(@, ParseError(engine_info[t]))]
            /\ progress_callbacks' = progress_callbacks \ {t}
            /\ pc' = [pc EXCEPT ![t] = "done"]
            /\ engine_info' = [engine_info EXCEPT ![t] = None]
       ELSE /\ active_tasks' = [active_tasks EXCEPT
                                   ![t].video_info = Some(parse_video_info(engine_info[t], active_tasks[t].url))]
            /\ UNCHANGED <<progress_callbacks, engine_info>>
            /\ pc' = [pc EXCEPT ![t] = "locate"]
    /\ ret' = None
    /\ UNCHANGED <<engine_opts, ex, download_status, cache_files, threads, fn>>

\* lines 596-603: the first listed file whose name contains the media id
FoundByListing(disk, id) ==
    LET hits == {i \in 1..Len(disk.listing) : Contains(disk.listing[i].name, id)}
    IN IF hits = {} THEN None
       ELSE Some(disk.listing[CHOOSE i \in hits : \A j \in hits : i <= j].name)

\* lines 596-606: the task after the file lookup (the directory exists)
Located(task, disk, info) ==
    LET scan == ~TruthyStr(task.filepath) \/ ~Exists(disk, Val(task.filepath))
        found == IF scan THEN FoundByListing(disk, Val(Get(Val(info), "id", Some(""))))
                 ELSE None
        t1 == IF found # None
              THEN [task EXCEPT !.filepath = Some(DownloadDir \o "/" \o Val(found)),
                                !.filename = found]
              ELSE task
    IN IF TruthyStr(t1.filepath) /\ Exists(disk, Val(t1.filepath))
       THEN [t1 EXCEPT !.filesize = Some(GetSize(disk, Val(t1.filepath)))]
       ELSE t1

\* lines 596-617 with the finally clause of lines 612-615 left out
download_locate_keeps_callback(t, disk) ==
    /\ t \in Registered
    /\ pc[t] = "locate"
    /\ LET task == active_tasks[t]
           scan == ~TruthyStr(task.filepath) \/ ~Exists(disk, Val(task.filepath))
       IN IF scan /\ disk.missing
          THEN active_tasks' = [active_tasks EXCEPT ![t] = Failed(@, ListDirError)]
          ELSE active_tasks' = [active_tasks EXCEPT ![t] = Located(@, disk, engine_info[t])]
    /\ pc' = [pc EXCEPT ![t] = "done"]
    /\ engine_info' = [engine_info EXCEPT ![t] = None]
    /\ ret' = None
    /\ UNCHANGED <<progress_callbacks, engine_opts, ex, download_status, cache_files, threads, fn>>

\* lines 596-617: the file lookup, the finally clause and the return
download_locate(t, disk) ==
    /\ t \in Registered
    /\ pc[t] = "locate"
    /\ LET task == active_tasks[t]
           scan == ~TruthyStr(task.filepath) \/ ~Exists(disk, Val(task.filepath))
       IN IF scan /\ disk.missing
          THEN active_tasks' = [active_tasks EXCEPT ![t] = Failed(@, ListDirError)]
          ELSE active_tasks' = [active_tasks EXCEPT ![t] = Located(@, disk, engine_info[t])]
    /\ progress_callbacks' = progress_callbacks \ {t}
    /\ pc' = [pc EXCEPT ![t] = "done"]
    /\ engine_info' = [engine_info EXCEPT ![t] = None]
    /\ ret' = None
    /\ UNCHANGED <<engine_opts, ex, download_status, cache_files, threads, fn>>

\* the hook raises after line 487: the exception leaves the engine call and
\* reaches the except clause of line 608
progress_hook_raises(t, d) ==
    /\ t \in Registered
    /\ pc[t] = "engine"
    /\ HookRaises(d)
    /\ active_tasks' = [active_tasks EXCEPT
                           ![t] = Failed([@ EXCEPT !.status = HookDownloadingStatus(@)],
                                         NoneCompareError)]
    /\ progress_callbacks' = progress_callbacks \ {t}
    /\ pc' = [pc EXCEPT ![t] = "done"]
    /\ ret' = None
    /\ UNCHANGED <<engine_info, engine_opts, ex, download_status, cache_files, threads, fn>>

\* the condition of line 626 for a task of the registry
CancelAllowedUnlessCompleted(task) == task.status # COMPLETED
CancelAllowed(task) == task.status \notin {COMPLETED, FAILED}

\* cancel_task(task_id), lines 623-629; `before` records the status the call
\* found ("missing" when the id is not in the registry)
cancel_task(task_id) ==
    /\ IF task_id \in Registered /\ CancelAllowed(active_tasks[task_id])
       THEN /\ active_tasks' = [active_tasks EXCEPT ![task_id].status = CANCELLED]
            /\ ret' = Some([op |-> "cancel_task", task_id |-> task_id, result |-> TRUE,
                            before |-> active_tasks[task_id].status])
       ELSE /\ UNCHANGED active_tasks
            /\ ret' = Some([op |-> "cancel_task", task_id |-> task_id, result |-> FALSE,
                            before |-> IF task_id \in Registered
                                       THEN active_tasks[task_id].status ELSE "missing"])
    /\ UNCHANGED <<progress_callbacks, pc, engine_info, engine_opts, ex, download_status, cache_files, threads, fn>>

\* get_task(task_id), lines 619-621: dict.get, None for an unknown id
get_task(task_id) ==
    /\ ret' = Some([op |-> "get_task", task_id |-> task_id,
                    result |-> IF task_id \in Registered
                               THEN Some(active_tasks[task_id]) ELSE None])
    /\ UNCHANGED <<active_tasks, progress_callbacks, pc, engine_info, engine_opts, ex,
                   download_status, cache_files, threads, fn>>

----------------------------------------------------------------------------
(* The task manager on its own *)

\* no pure function is being applied
FnIdle == [op |-> "idle"]

\* no extract_info call is in progress
ExIdle == [pc |-> "idle"]

Init ==
    /\ active_tasks = << >>
    /\ progress_callbacks = {}
    /\ pc = << >>
    /\ engine_info = << >>
    /\ engine_opts = << >>
    /\ ret = None
    /\ ex = ExIdle
    /\ download_status = << >>
    /\ cache_files = {}
    /\ threads = << >>
    /\ fn = FnIdle

Next ==
    \/ \E url \in TaskUrls, with_callback \in BOOLEAN : download_video(url, "best", TRUE, with_callback)
    \/ \E t \in TaskIds, d \in CoreEvents : progress_hook(t, d)
    \/ \E t \in TaskIds, info \in CoreInfos : download_returns(t, info)
    \/ \E t \in TaskIds : download_raises(t, "ERROR: HTTP Error 403: Forbidden")
    \/ \E t \in TaskIds : download_parse(t)
    \/ \E t \in TaskIds, disk \in CoreDisks : download_locate(t, disk)
    \/ \E task_id \in 0..MaxTasks : cancel_task(task_id)

Spec == Init /\ [][Next]_vars

\* the coroutine of download_video for task t goes on from position `at`
\* to one of the positions `to`
Resumes(t, at, to) ==
    /\ t \in Registered
    /\ pc[t] = at
    /\ \E position \in to : pc' = [pc EXCEPT ![t] = position]

\* line 589: the awaited engine call of every task comes back, with metadata
\* or with an exception; the event loop then goes on with the statements
\* after the await (line 593, lines 596-617)
Fairness ==
    \A t \in TaskIds :
        /\ WF_pc(Resumes(t, "engine", {"parse", "done"}))
        /\ WF_pc(Resumes(t, "parse", {"locate", "done"}))
        /\ WF_pc(Resumes(t, "locate", {"done"}))

\* the task manager with an engine that ends and a fair event loop
SpecFair == Init /\ [][Next]_vars /\ Fairness

\* the task manager with its read operation
NextRegistry ==
    \/ Next
    \/ \E task_id \in 0..MaxTasks : get_task(task_id)

SpecRegistry == Init /\ [][NextRegistry]_vars

\* downloads started with each kind of format argument
FormatUrls == {"https://music.youtube.com/watch?v=abc", "https://www.instagram.com/reel/abc"}
FormatIds == {"best", "137", "18"}

NextFormats ==
    \/ \E url \in FormatUrls, format_id \in FormatIds, audio_only \in BOOLEAN :
           download_video(url, format_id, audio_only, FALSE)
    \/ \E t \in TaskIds, d \in CoreEvents : progress_hook(t, d)
    \/ \E t \in TaskIds : download_raises(t, "ERROR: Requested Format is not available")
    \/ \E t \in TaskIds : download_returns(t, GoodInfo)
    \/ \E t \in TaskIds : download_parse(t)
    \/ \E t \in TaskIds, disk \in CoreDisks : download_locate(t, disk)

SpecFormats == Init /\ [][NextFormats]_vars

\* a merged download (video stream, then audio stream) with byte counters
\* of each kind: a known total, an estimate the download overshoots, and no
\* total at all
AudioPartPath == DownloadDir \o "/Song_abc.f140.m4a"
ProgressEvents ==
    CoreEvents \cup
    {Event("downloading", 3, Absent, P(2), Silent, P(SongPath)),
     Event("downloading", 1, Absent, Absent, Silent, P(SongPath)),
     Event("downloading", 0, P(2), Absent, Silent, P(SongPath)),
     Event("downloading", 2, P(2), P(1), Metered, P(SongPath)),
     Event("downloading", 0, P(4), Absent, Metered, P(AudioPartPath)),
     Event("finished", 4, P(4), Absent, Silent, P(AudioPartPath))}

NextProgress ==
    \/ \E url \in TaskUrls, with_callback \in BOOLEAN :
           download_video(url, "best", FALSE, with_callback)
    \/ \E t \in TaskIds, d \in ProgressEvents : progress_hook(t, d)
    \/ \E t \in TaskIds : cancel_task(t)
    \/ \E t \in TaskIds : download_raises(t, "ERROR: HTTP Error 403: Forbidden")
    \/ \E t \in TaskIds : download_returns(t, GoodInfo)
    \/ \E t \in TaskIds : download_parse(t)
    \/ \E t \in TaskIds, disk \in CoreDisks : download_locate(t, disk)

SpecProgress == Init /\ [][NextProgress]_vars

\* several downloads at once: every call of download_video registers a task
\* of its own (uuid4, line 478) and runs beside the others
MaxConcurrent == 2
ConcurrentIds == 1..MaxConcurrent

download_video_beside(url, with_callback) ==
    /\ Cardinality(Registered) < MaxConcurrent
    /\ RegisterTask(CHOOSE t \in ConcurrentIds :
                        t \notin Registered /\ \A u \in ConcurrentIds : u < t => u \in Registered,
                    url, "best", TRUE, with_callback)

NextConcurrent ==
    \/ \E url \in TaskUrls : download_video_beside(url, FALSE)
    \/ \E t \in ConcurrentIds, d \in CoreEvents : progress_hook(t, d)
    \/ \E t \in ConcurrentIds : download_returns(t, GoodInfo)
    \/ \E t \in ConcurrentIds : download_raises(t, "ERROR: HTTP Error 403: Forbidden")
    \/ \E t \in ConcurrentIds : cancel_task(t)

SpecConcurrent == Init /\ [][NextConcurrent]_vars

\* progress events with the ways a total can be missing: no key,
\* None, zero, and an estimate that is present and None
Labelled == [speed_str |-> P("1.50MiB/s"), speed |-> P(1572864), eta_str |-> P("00:09"), eta |-> P(9)]
PartPath == DownloadDir \o "/Song_abc.webm.part"
UnknownTotalEvents ==
    {Event("downloading", 1, Absent, Absent, Labelled, P(PartPath)),
     Event("downloading", 1, Present(None), Absent, Metered, P(PartPath)),
     Event("downloading", 1, P(0), P(0), Labelled, P(PartPath)),
     Event("downloading", 1, Absent, Present(None), Labelled, P(PartPath))}
HookEvents == CoreEvents \cup UnknownTotalEvents

NextHook ==
    \/ \E url \in TaskUrls : download_video(url, "best", FALSE, FALSE)
    \/ \E t \in TaskIds, d \in HookEvents : progress_hook(t, d)
    \/ \E t \in TaskIds, d \in HookEvents : progress_hook_raises(t, d)
    \/ \E t \in TaskIds : cancel_task(t)
    \/ \E t \in TaskIds : download_raises(t, "ERROR: HTTP Error 403: Forbidden")
    \/ \E t \in TaskIds : download_returns(t, GoodInfo)
    \/ \E t \in TaskIds : download_parse(t)
    \/ \E t \in TaskIds, disk \in CoreDisks : download_locate(t, disk)

SpecHook == Init /\ [][NextHook]_vars

----------------------------------------------------------------------------
(* YTDLPHandler.extract_info and its strategy selector *)

Strategy(name, opts) == [name |-> name, opts |-> opts]

GenericStrategiesDefaultLast ==
    <<Strategy("No Browser Headers", {<<"http_headers", "{}">>}),
      Strategy("With Geo Bypass", {<<"geo_bypass", "True">>, <<"geo_bypass_country", "US">>}),
      Strategy("Default", {})>>

\* lines 306-319: the strategies of a url of no known platform
GenericStrategies ==
    <<Strategy("Default", {}),
      Strategy("No Browser Headers", {<<"http_headers", "{}">>}),
      Strategy("With Geo Bypass", {<<"geo_bypass", "True">>, <<"geo_bypass_country", "US">>})>>

\* _get_extraction_strategies(url), lines 232-320; an options dict is the set
\* of its <<key, value>> pairs
get_extraction_strategies(url) ==
    LET url_lower == Lower(url)
    IN IF Contains(url_lower, "youtube.com") \/ Contains(url_lower, "youtu.be")
       THEN <<Strategy("YouTube Web Client", {<<"extractor_args.youtube.player_client", "web">>}),
              Strategy("YouTube Android Client", {<<"extractor_args.youtube.player_client", "android">>}),
              Strategy("YouTube iOS Client", {<<"extractor_args.youtube.player_client", "ios">>}),
              Strategy("YouTube TV Embedded", {<<"extractor_args.youtube.player_client", "tv_embedded">>}),
              Strategy("YouTube Default", {})>>
       ELSE IF Contains(url_lower, "instagram.com") \/ Contains(url_lower, "instagr.am")
       THEN <<Strategy("Instagram GraphQL", {<<"extractor_args.instagram.api", "graphql">>}),
              Strategy("Instagram Default", {}),
              Strategy("Instagram with Cookies", {<<"cookiesfrombrowser", "chrome">>})>>
       ELSE IF Contains(url_lower, "tiktok.com")
       THEN <<Strategy("TikTok API", {<<"extractor_args.tiktok.api_hostname", "api22-normal-c-useast2a.tiktokv.com">>}),
              Strategy("TikTok Default", {})>>
       ELSE IF Contains(url_lower, "twitter.com") \/ Contains(url_lower, "x.com")
       THEN <<Strategy("Twitter Legacy API", {<<"extractor_args.twitter.legacy_api", "true">>}),
              Strategy("Twitter Default", {})>>
       ELSE GenericStrategies

AllFailedMessage == "All extraction methods failed"

\* the loop of lines 193-214 goes on with the next strategy after an
\* exception (`continue`) and after an empty result (end of the body)
BreakAfterException(i, n) == n + 1
NextAfterException(i, n) == i + 1
NextAfterEmpty(i, n) == i + 1

\* the value of last_error after an exception with the given text
CaptureError(last_error, text) == Some(text)

\* `if info:` of line 208: None and the empty dict are falsy
InfoTruthy(info) == info # None /\ info # EmptyDict

\* extract_info(url) is called: lines 189-191
extract_info(url) ==
    /\ ex.pc = "idle"
    /\ ex' = [pc |-> "loop", url |-> url, i |-> 1, last_error |-> None,
              attempts |-> << >>, result |-> None, error |-> None]
    /\ UNCHANGED <<active_tasks, progress_callbacks, pc, engine_info, engine_opts, ret,
                   download_status, cache_files, threads, fn>>

\* lines 193-207: the next strategy's engine call is handed to the executor;
\* after the last strategy the loop ends
extract_call ==
    /\ ex.pc = "loop"
    /\ LET strategies == get_extraction_strategies(ex.url)
       IN IF ex.i <= Len(strategies)
          THEN ex' = [ex EXCEPT
                        !.pc = "calling",
                        !.attempts = Append(@, [strategy |-> strategies[ex.i].name,
                                                outcome |-> "calling",
                                                info |-> None, text |-> None])]
          ELSE ex' = [ex EXCEPT !.pc = "fallback"]
    /\ UNCHANGED <<active_tasks, progress_callbacks, pc, engine_info, engine_opts, ret,
                   download_status, cache_files, threads, fn>>

\* lines 211-214: the engine call raises
extract_raises(text) ==
    /\ ex.pc = "calling"
    /\ ex' = [ex EXCEPT
                !.pc = "loop",
                !.i = NextAfterException(@, Len(get_extraction_strategies(ex.url))),
                !.last_error = CaptureError(@, text),
                !.attempts[Len(ex.attempts)] =
                    [@ EXCEPT !.outcome = "raised", !.text = Some(text)]]
    /\ UNCHANGED <<active_tasks, progress_callbacks, pc, engine_info, engine_opts, ret,
                   download_status, cache_files, threads, fn>>

\* lines 207-214: the engine call returns info; a truthy info is parsed and
\* returned, and an exception of the parser is caught like the engine's
extract_returns(info) ==
    /\ ex.pc = "calling"
    /\ LET n == Len(get_extraction_strategies(ex.url))
           k == Len(ex.attempts)
       IN IF ~InfoTruthy(info)
          THEN ex' = [ex EXCEPT
                        !.pc = "loop",
                        !.i = NextAfterEmpty(@, n),
                        !.attempts[k] = [@ EXCEPT !.outcome = "empty", !.info = info]]
          ELSE IF ParseRaises(info)
          THEN ex' = [ex EXCEPT
                        !.pc = "loop",
                        !.i = NextAfterException(@, n),
                        !.last_error = CaptureError(@, ParseError(info)),
                        !.attempts[k] = [@ EXCEPT !.outcome = "metadata", !.info = info,
                                                  !.text = Some(ParseError(info))]]
          ELSE ex' = [ex EXCEPT
                        !.pc = "returned",
                        !.result = Some(parse_video_info(info, ex.url)),
                        !.attempts[k] = [@ EXCEPT !.outcome = "metadata", !.info = info]]
    /\ UNCHANGED <<active_tasks, progress_callbacks, pc, engine_info, engine_opts, ret,
                   download_status, cache_files, threads, fn>>

\* lines 216-230: whatever the fallback downloaders do is caught by the
\* except clause of line 226, and line 230 raises the translated error
extract_fails ==
    /\ ex.pc = "fallback"
    /\ ex' = [ex EXCEPT
                !.pc = "failed",
                !.error = Some(get_friendly_error(
                              IF TruthyStr(ex.last_error) THEN Val(ex.last_error)
                              ELSE AllFailedMessage))]
    /\ UNCHANGED <<active_tasks, progress_callbacks, pc, engine_info, engine_opts, ret,
                   download_status, cache_files, threads, fn>>

\* the caller takes the result or the exception; another call can follow
extract_done ==
    /\ ex.pc \in {"returned", "failed"}
    /\ ex' = ExIdle
    /\ UNCHANGED <<active_tasks, progress_callbacks, pc, engine_info, engine_opts, ret,
                   download_status, cache_files, threads, fn>>

ExtractUrls ==
    {"https://youtu.be/abc", "https://www.TikTok.com/@u/video/1", "https://vimeo.com/1"}
ExtractInfos == {None, EmptyDict, GoodInfo, NullNoteInfo}
ExtractErrors ==
    {"ERROR: Sign in to confirm you're not a bot",
     "ERROR: HTTP Error 403: Forbidden"}

NextExtract ==
    \/ \E url \in ExtractUrls : extract_info(url)
    \/ extract_call
    \/ \E text \in ExtractErrors : extract_raises(text)
    \/ \E info \in ExtractInfos : extract_returns(info)
    \/ extract_fails
    \/ extract_done

SpecExtract == Init /\ [][NextExtract]_vars

\* extraction and download failures side by side, with every sample error
ErrorUrls == {"https://www.TikTok.com/@u/video/1"}
ErrorInfos == {None, GoodInfo, NullNoteInfo}

NextErrors ==
    \/ \E url \in ErrorUrls : extract_info(url)
    \/ extract_call
    \/ \E text \in EngineErrors : extract_raises(text)
    \/ \E info \in ErrorInfos : extract_returns(info)
    \/ extract_fails
    \/ extract_done
    \/ \E url \in TaskUrls : download_video(url, "best", TRUE, FALSE)
    \/ \E t \in TaskIds, text \in EngineErrors : download_raises(t, text)
    \/ \E t \in TaskIds, info \in CoreInfos : download_returns(t, info)
    \/ \E t \in TaskIds : download_parse(t)
    \/ \E t \in TaskIds, disk \in CoreDisks : download_locate(t, disk)

SpecErrors == Init /\ [][NextErrors]_vars

----------------------------------------------------------------------------
(* src/server.py: the background audio download *)

MaxDownloads == 1
CACHE_DIR == "/audio_cache"
VideoIds == {"abc"}

\* YOUTUBE_STRATEGIES, lines 55-61
YOUTUBE_STRATEGIES ==
    <<Strategy("Default", {}),
      Strategy("Web Client", {<<"extractor_args.youtube.player_client", "web">>}),
      Strategy("Android Client", {<<"extractor_args.youtube.player_client", "android">>}),
      Strategy("iOS Client", {<<"extractor_args.youtube.player_client", "ios">>}),
      Strategy("TV Embedded", {<<"extractor_args.youtube.player_client", "tv_embedded">>})>>

AudioExts == <<"m4a", "mp3", "webm", "opus", "ogg">>

\* the file name of outtmpl '%(id)s.%(ext)s', line 51
CacheName(video_id, ext) == video_id \o "." \o ext

\* get_cached_audio_path(video_id), lines 63-70, on the files of CACHE_DIR
get_cached_audio_path(files, video_id) ==
    LET hits == {k \in 1..Len(AudioExts) : CacheName(video_id, AudioExts[k]) \in files}
    IN IF hits = {} THEN None
       ELSE Some(CACHE_DIR \o "/" \o
                 CacheName(video_id, AudioExts[CHOOSE k \in hits : \A j \in hits : k <= j]))

StatusIs(video_id, status) ==
    video_id \in DOMAIN download_status /\ download_status[video_id] = status

SetStatus(video_id, status) ==
    [v \in DOMAIN download_status \cup {video_id} |->
        IF v = video_id THEN status ELSE download_status[v]]

\* lines 108-113: the test of download_status, then threading.Thread(...);
\* the new thread has not run a line of download_audio yet
StartThread(video_id) ==
    IF StatusIs(video_id, "downloading")
    THEN UNCHANGED threads
    ELSE threads' = Append(threads, [video_id |-> video_id, pc |-> "start", i |-> 1,
                                     last_error |-> None, tried |-> << >>,
                                     produced |-> << >>, result |-> None])

\* start_download_async(video_id), lines 107-113
start_download_async(video_id) ==
    /\ Len(threads) < MaxDownloads
    /\ StartThread(video_id)
    /\ UNCHANGED <<active_tasks, progress_callbacks, pc, engine_info, engine_opts, ret, ex,
                   download_status, cache_files, fn>>

\* the loop of lines 79-100 goes on with the next strategy after an exception
NextAfterDownloadError(i) == i + 1

\* where the thread stands once strategy i is over without a cached file
AfterStrategy(i) == IF i <= Len(YOUTUBE_STRATEGIES) THEN "call" ELSE "exhausted"

\* download_audio, line 74
audio_begin(th) ==
    /\ th \in 1..Len(threads)
    /\ threads[th].pc = "start"
    /\ download_status' = SetStatus(threads[th].video_id, "downloading")
    /\ threads' = [threads EXCEPT ![th].pc = "call"]
    /\ UNCHANGED <<active_tasks, progress_callbacks, pc, engine_info, engine_opts, ret, ex, cache_files, fn>>

\* lines 88-89 and 98-100: ydl.download raises
audio_download_raises(th, text) ==
    /\ th \in 1..Len(threads)
    /\ threads[th].pc = "call"
    /\ LET thread == threads[th]
           next == NextAfterDownloadError(thread.i)
       IN threads' = [threads EXCEPT ![th] =
              [thread EXCEPT !.i = next, !.pc = AfterStrategy(next),
                             !.last_error = Some(text),
                             !.tried = Append(@, YOUTUBE_STRATEGIES[thread.i].name),
                             !.produced = Append(@, FALSE)]]
    /\ UNCHANGED <<active_tasks, progress_callbacks, pc, engine_info, engine_opts, ret, ex,
                   download_status, cache_files, fn>>

\* lines 88-89: ydl.download returns, having written the file of the
\* extension the format selector picked, or no file at all
audio_download_returns(th, wrote) ==
    /\ th \in 1..Len(threads)
    /\ threads[th].pc = "call"
    /\ LET thread == threads[th]
       IN /\ cache_files' = IF wrote = None THEN cache_files
                            ELSE cache_files \cup {CacheName(thread.video_id, Val(wrote))}
          /\ threads' = [threads EXCEPT ![th] =
                 [thread EXCEPT !.pc = "verify",
                                !.tried = Append(@, YOUTUBE_STRATEGIES[thread.i].name),
                                !.produced = Append(@, wrote # None)]]
    /\ UNCHANGED <<active_tasks, progress_callbacks, pc, engine_info, engine_opts, ret, ex, download_status, fn>>

\* lines 91-96 with the test of line 93 left out
audio_verify_unchecked(th) ==
    /\ th \in 1..Len(threads)
    /\ threads[th].pc = "verify"
    /\ LET thread == threads[th]
           cached_path == get_cached_audio_path(cache_files, thread.video_id)
       IN /\ download_status' = SetStatus(thread.video_id, "ready")
          /\ threads' = [threads EXCEPT ![th] =
                 [thread EXCEPT !.pc = "done", !.result = cached_path]]
    /\ UNCHANGED <<active_tasks, progress_callbacks, pc, engine_info, engine_opts, ret, ex, cache_files, fn>>

\* lines 91-96: the cache lookup after the download
audio_verify(th) ==
    /\ th \in 1..Len(threads)
    /\ threads[th].pc = "verify"
    /\ LET thread == threads[th]
           cached_path == get_cached_audio_path(cache_files, thread.video_id)
       IN IF cached_path # None
          THEN /\ download_status' = SetStatus(thread.video_id, "ready")
               /\ threads' = [threads EXCEPT ![th] =
                      [thread EXCEPT !.pc = "done", !.result = cached_path]]
          ELSE /\ threads' = [threads EXCEPT ![th] =
                      [thread EXCEPT !.i = @ + 1, !.pc = AfterStrategy(thread.i + 1)]]
               /\ UNCHANGED download_status
    /\ UNCHANGED <<active_tasks, progress_callbacks, pc, engine_info, engine_opts, ret, ex, cache_files, fn>>

\* lines 102-105: all strategies failed
audio_gives_up(th) ==
    /\ th \in 1..Len(threads)
    /\ threads[th].pc = "exhausted"
    /\ download_status' = SetStatus(threads[th].video_id, "error")
    /\ threads' = [threads EXCEPT ![th].pc = "done"]
    /\ UNCHANGED <<active_tasks, progress_callbacks, pc, engine_info, engine_opts, ret, ex, cache_files, fn>>

\* the extensions the engine writes: one the cache lookup knows, one it
\* does not (the selector's last alternative, 'best', is not audio-only)
WrittenExts == {None, Some("webm"), Some("mp4")}

\* the same with a second extension the lookup knows, later in its order
LookupExts == WrittenExts \cup {Some("ogg"), Some("m4a")}

\* the two download operations side by side
NextDownload ==
    \/ \E url \in TaskUrls : download_video(url, "best", TRUE, FALSE)
    \/ \E t \in TaskIds : download_raises(t, "ERROR: HTTP Error 403: Forbidden")
    \/ \E t \in TaskIds : download_returns(t, GoodInfo)
    \/ \E t \in TaskIds : download_parse(t)
    \/ \E t \in TaskIds, disk \in CoreDisks : download_locate(t, disk)
    \/ \E video_id \in VideoIds : start_download_async(video_id)
    \/ \E th \in 1..MaxDownloads : audio_begin(th)
    \/ \E th \in 1..MaxDownloads : audio_download_raises(th, "ERROR: HTTP Error 403: Forbidden")
    \/ \E th \in 1..MaxDownloads, wrote \in WrittenExts : audio_download_returns(th, wrote)
    \/ \E th \in 1..MaxDownloads : audio_verify(th)
    \/ \E th \in 1..MaxDownloads : audio_gives_up(th)

SpecDownload == Init /\ [][NextDownload]_vars

\* the background audio download on its own
NextAudio ==
    \/ \E video_id \in VideoIds : start_download_async(video_id)
    \/ \E th \in 1..MaxDownloads : audio_begin(th)
    \/ \E th \in 1..MaxDownloads : audio_download_raises(th, "ERROR: HTTP Error 403: Forbidden")
    \/ \E th \in 1..MaxDownloads, wrote \in WrittenExts : audio_download_returns(th, wrote)
    \/ \E th \in 1..MaxDownloads : audio_verify(th)
    \/ \E th \in 1..MaxDownloads : audio_gives_up(th)

SpecAudio == Init /\ [][NextAudio]_vars

\* a request handler asks the cache for a media id (get_stream, serve_audio,
\* proxy_stream: lines 215, 252, 281)
lookup(video_id) ==
    /\ ret' = Some([op |-> "lookup", video_id |-> video_id,
                    result |-> get_cached_audio_path(cache_files, video_id)])
    /\ UNCHANGED <<active_tasks, progress_callbacks, pc, engine_info, engine_opts, ex,
                   download_status, cache_files, threads, fn>>

LookupIds == VideoIds \cup {"ab"}

\* the audio download with the cache lookups of the request handlers
NextLookup ==
    \/ \E video_id \in VideoIds : start_download_async(video_id)
    \/ \E th \in 1..MaxDownloads : audio_begin(th)
    \/ \E th \in 1..MaxDownloads : audio_download_raises(th, "ERROR: HTTP Error 403: Forbidden")
    \/ \E th \in 1..MaxDownloads, wrote \in LookupExts : audio_download_returns(th, wrote)
    \/ \E th \in 1..MaxDownloads : audio_verify(th)
    \/ \E th \in 1..MaxDownloads : audio_gives_up(th)
    \/ \E video_id \in LookupIds : lookup(video_id)

SpecLookup == Init /\ [][NextLookup]_vars

----------------------------------------------------------------------------
(* src/server.py: the request handlers that start the background download *)

MaxRequests == 2

\* the json body of a handler's answer
Answer(op, video_id, code, ready, status) ==
    Some([op |-> op, video_id |-> video_id, code |-> code, ready |-> ready, status |-> status])

\* download_status.get(video_id, 'not_started'), line 226
StatusOrNotStarted(video_id) ==
    IF video_id \in DOMAIN download_status THEN download_status[video_id] ELSE "not_started"

\* get_stream(video_id), lines 210-246
get_stream(video_id) ==
    /\ Len(threads) < MaxRequests
    /\ IF get_cached_audio_path(cache_files, video_id) # None
       THEN /\ ret' = Answer("get_stream", video_id, 200, TRUE, "cached")
            /\ UNCHANGED threads
       ELSE IF StatusOrNotStarted(video_id) = "downloading"
       THEN /\ ret' = Answer("get_stream", video_id, 200, FALSE, "downloading")
            /\ UNCHANGED threads
       ELSE IF StatusOrNotStarted(video_id) = "error"
       THEN /\ ret' = Answer("get_stream", video_id, 500, FALSE, "error")
            /\ UNCHANGED threads
       ELSE /\ ret' = Answer("get_stream", video_id, 200, FALSE, "started")
            /\ StartThread(video_id)
    /\ UNCHANGED <<active_tasks, progress_callbacks, pc, engine_info, engine_opts, ex,
                   download_status, cache_files, fn>>

\* serve_audio(video_id), lines 248-273, and proxy_stream(video_id), lines
\* 275-291, which answers with serve_audio when the file is cached
serve_audio(op, video_id) ==
    /\ Len(threads) < MaxRequests
    /\ IF get_cached_audio_path(cache_files, video_id) # None
       THEN /\ ret' = Answer(op, video_id, 200, TRUE, "file")
            /\ UNCHANGED threads
       ELSE /\ ret' = Answer(op, video_id, 202, FALSE, "started")
            /\ StartThread(video_id)
    /\ UNCHANGED <<active_tasks, progress_callbacks, pc, engine_info, engine_opts, ex,
                   download_status, cache_files, fn>>

\* the handlers and the download threads they start; the engine fails, or
\* writes a file the cache lookup knows
NextRequests ==
    \/ \E video_id \in VideoIds : get_stream(video_id)
    \/ \E video_id \in VideoIds, op \in {"serve_audio", "proxy_stream"} : serve_audio(op, video_id)
    \/ \E th \in 1..MaxRequests : audio_begin(th)
    \/ \E th \in 1..MaxRequests : audio_download_raises(th, "ERROR: HTTP Error 403: Forbidden")
    \/ \E th \in 1..MaxRequests : audio_download_returns(th, Some("webm"))
    \/ \E th \in 1..MaxRequests : audio_verify(th)
    \/ \E th \in 1..MaxRequests : audio_gives_up(th)

SpecRequests == Init /\ [][NextRequests]_vars

----------------------------------------------------------------------------
(* The normalizer applied to raw format lists *)

MaxFormats == 3

\* raw formats, one for each way the loop of lines 331-361 treats an entry
NoId == RawFormat(Absent, P("360p"), P("mp4"), P("avc1"), P("mp4a"), P(360), P(400))
EmptyId == RawFormat(P(""), P("360p"), P("mp4"), P("avc1"), P("mp4a"), P(360), P(400))
BoardNote == RawFormat(P("b1"), P("StoryBoard 1"), P("mp4"), P("avc1"), P("mp4a"), P(360), P(400))
HtmlExt == RawFormat(P("h1"), P("page"), P("MHTML"), P("avc1"), P("mp4a"), P(360), P(400))
NoneCodecs == RawFormat(P("n1"), P("data"), P("mp4"), P("none"), Absent, P(360), P(400))
NullCodecs == RawFormat(P("n2"), P("unknown"), P("mp4"), Present(None), Present(None), P(360), P(400))
Tiny == RawFormat(P("t1"), P("preview"), P("mp4"), P("avc1"), P("none"), P(90), P(50))
Audio139 == RawFormat(P("139"), P("low"), P("m4a"), P("none"), P("mp4a"), Absent, P(48))
Video299 == RawFormat(P("299"), P("1080p60"), P("mp4"), P("avc1"), P("none"), P(1080), P(4000))
Video136 == RawFormat(P("136"), P("720p"), P("mp4"), P("avc1"), P("none"), P(720), P(2000))
Combined22 == RawFormat(P("22"), P("720p"), P("mp4"), P("avc1"), P("mp4a"), P(720), Absent)

SampleFormats ==
    {NoId, EmptyId, BoardNote, HtmlExt, NoneCodecs, NullCodecs, Tiny, NullNote,
     Audio140, Audio139, Video137, Video299, Video136, Combined18, Combined22}

RawLists == UNION {[1..n -> SampleFormats] : n \in 0..MaxFormats}

\* the engine hands back metadata holding one of the raw format lists
InitNormalize ==
    /\ active_tasks = << >>
    /\ progress_callbacks = {}
    /\ pc = << >>
    /\ engine_info = << >>
    /\ engine_opts = << >>
    /\ ret = None
    /\ ex = ExIdle
    /\ download_status = << >>
    /\ cache_files = {}
    /\ threads = << >>
    /\ fn \in {[op |-> "input", raw |-> raw] : raw \in RawLists}

\* _parse_video_info(info, url) is applied: its formats, or the exception
normalize ==
    /\ fn.op = "input"
    /\ LET info == RawInfo("abc", P(fn.raw))
       IN fn' = IF ParseRaises(info)
                THEN [op |-> "raised", raw |-> fn.raw, error |-> ParseError(info)]
                ELSE [op |-> "normalized", raw |-> fn.raw,
                      formats |-> parse_video_info(info, "https://youtu.be/abc").formats]
    /\ UNCHANGED <<active_tasks, progress_callbacks, pc, engine_info, engine_opts, ret, ex,
                   download_status, cache_files, threads>>

NextNormalize == normalize

SpecNormalize == InitNormalize /\ [][NextNormalize]_vars

----------------------------------------------------------------------------
(* The normalizer applied to single formats of every height, kind, bitrate *)
(* and note                                                                *)

LabelHeights ==
    {Absent, Present(None)} \cup
    {P(h) : h \in {0, 100, 144, 239, 240, 359, 360, 479, 480, 719, 720,
                   1079, 1080, 1439, 1440, 2159, 2160, 4320}}
LabelCodecs == {<<"avc1", "mp4a">>, <<"avc1", "none">>, <<"none", "mp4a">>}
LabelBitrates == {Absent, Present(None), P(0), P(128)}
LabelNotes == {Absent, P("medium"), P("")}

LabelFormats ==
    {[RawFormat(P("f1"), note, P("mp4"), P(codecs[1]), P(codecs[2]), height, Absent)
         EXCEPT !.abr = abr] :
        note \in LabelNotes, codecs \in LabelCodecs, height \in LabelHeights,
        abr \in LabelBitrates}

InitLabels ==
    /\ active_tasks = << >>
    /\ progress_callbacks = {}
    /\ pc = << >>
    /\ engine_info = << >>
    /\ engine_opts = << >>
    /\ ret = None
    /\ ex = ExIdle
    /\ download_status = << >>
    /\ cache_files = {}
    /\ threads = << >>
    /\ fn \in {[op |-> "input", raw |-> <<fmt>>] : fmt \in LabelFormats}

NextLabels == normalize

SpecLabels == InitLabels /\ [][NextLabels]_vars

----------------------------------------------------------------------------
(* The normalizer applied to thumbnail lists *)

MaxThumbs == 2

Thumb(url, preference, width) == [url |-> url, preference |-> preference, width |-> width]

\* thumbnail dicts as the engine lists them, each with its own url
SampleThumbs ==
    {Thumb(P("hq.jpg"), P(1), P(120)),
     Thumb(P("wide.jpg"), P(0), P(1920)),
     Thumb(P("mid.jpg"), P(1), P(640)),
     Thumb(P("low.jpg"), P(0 - 1), P(1280)),
     Thumb(P("bare.jpg"), Absent, Absent),
     Thumb(P("w320.jpg"), Present(None), P(320)),
     Thumb(P(""), P(2), P(4000)),
     Thumb(Absent, P(2), P(4000))}

ThumbLists == UNION {[1..n -> SampleThumbs] : n \in 0..MaxThumbs}

ThumbInfos ==
    {[Val(RawInfo("abc", P(<<Audio140>>))) EXCEPT !.thumbnails = thumbnails, !.thumbnail = thumbnail] :
        thumbnails \in {Absent, Present(None)} \cup {P(l) : l \in ThumbLists},
        thumbnail \in {Absent, Present(None), P("default.jpg")}}

InitThumbs ==
    /\ active_tasks = << >>
    /\ progress_callbacks = {}
    /\ pc = << >>
    /\ engine_info = << >>
    /\ engine_opts = << >>
    /\ ret = None
    /\ ex = ExIdle
    /\ download_status = << >>
    /\ cache_files = {}
    /\ threads = << >>
    /\ fn \in {[op |-> "info", info |-> info] : info \in ThumbInfos}

\* _parse_video_info(info, url) is applied to metadata that does not raise
parse_info ==
    /\ fn.op = "info"
    /\ ~ParseRaises(Some(fn.info))
    /\ fn' = [op |-> "parsed", info |-> fn.info,
              video_info |-> parse_video_info(Some(fn.info), "https://youtu.be/abc")]
    /\ UNCHANGED <<active_tasks, progress_callbacks, pc, engine_info, engine_opts, ret, ex,
                   download_status, cache_files, threads>>

NextThumbs == parse_info

SpecThumbs == InitThumbs /\ [][NextThumbs]_vars

----------------------------------------------------------------------------
(* The strategy selector applied to urls *)

MaxCalls == 2

Schemes == {"https://", "HTTP://", ""}
Hosts ==
    {"www.youtube.com", "youtu.be", "M.YouTube.Com", "www.instagram.com", "instagr.am",
     "vm.tiktok.com", "twitter.com", "x.com", "netflix.com", "vimeo.com",
     "soundcloud.com", "youtube.co", ""}
Paths == {"", "/watch?v=abc", "/share?u=youtu.be/abc"}
StrategyUrls == {s \o h \o p : s \in Schemes, h \in Hosts, p \in Paths}

InitStrategies ==
    /\ active_tasks = << >>
    /\ progress_callbacks = {}
    /\ pc = << >>
    /\ engine_info = << >>
    /\ engine_opts = << >>
    /\ ret = None
    /\ ex = ExIdle
    /\ download_status = << >>
    /\ cache_files = {}
    /\ threads = << >>
    /\ fn \in {[op |-> "strategies", url |-> url, results |-> << >>] : url \in StrategyUrls}

\* _get_extraction_strategies(url) is called once more on the same url
select_strategies ==
    /\ fn.op = "strategies"
    /\ Len(fn.results) < MaxCalls
    /\ fn' = [fn EXCEPT !.results = Append(@, get_extraction_strategies(fn.url))]
    /\ UNCHANGED <<active_tasks, progress_callbacks, pc, engine_info, engine_opts, ret, ex,
                   download_status, cache_files, threads>>

NextStrategies == select_strategies

SpecStrategies == InitStrategies /\ [][NextStrategies]_vars

----------------------------------------------------------------------------
(* YTDLPHandler.get_recommended_formats *)

\* safe_get_height and get_bitrate, lines 653-664
safe_get_height(f) == get_resolution_height(f)
get_bitrate(f) == tbr_or_0(f)

IsCombined(f) == ~f.is_audio_only /\ ~f.is_video_only
IsVideoOnly(f) == f.is_video_only
IsAudioOnly(f) == f.is_audio_only

\* line 671: all_video = video_formats + video_only
all_video_of(formats) == SelectSeq(formats, IsCombined) \o SelectSeq(formats, IsVideoOnly)

\* f.filesize or f.filesize_approx
FileSizeOf(f) == IF TruthyInt(f.filesize) THEN f.filesize ELSE f.filesize_approx

\* max(...) with the bitrate left out of the key
BestVideoIndexByHeightOnly(all_video) ==
    CHOOSE i \in 1..Len(all_video) :
        \A j \in 1..Len(all_video) :
            \/ safe_get_height(all_video[i]) > safe_get_height(all_video[j])
            \/ /\ safe_get_height(all_video[i]) = safe_get_height(all_video[j])
               /\ i <= j

\* line 673: max(all_video, key=(height, bitrate)) is the first format of
\* greatest key
BestVideoIndex(all_video) ==
    CHOOSE i \in 1..Len(all_video) :
        \A j \in 1..Len(all_video) :
            \/ safe_get_height(all_video[i]) > safe_get_height(all_video[j])
            \/ /\ safe_get_height(all_video[i]) = safe_get_height(all_video[j])
               /\ get_bitrate(all_video[i]) > get_bitrate(all_video[j])
            \/ /\ safe_get_height(all_video[i]) = safe_get_height(all_video[j])
               /\ get_bitrate(all_video[i]) = get_bitrate(all_video[j])
               /\ i <= j

QualityBadge(height) ==
    IF height >= 2160 THEN "4K" ELSE IF height >= 1440 THEN "2K"
    ELSE IF height >= 720 THEN "HD" ELSE "SD"

\* lines 672-685
BestEntry(all_video) ==
    IF all_video = << >> THEN << >>
    ELSE LET best_video == all_video[BestVideoIndex(all_video)]
         IN <<[id |-> best_video.format_id,
               label |-> "Best Quality - " \o Val(best_video.quality_label),
               type |-> "video",
               badge |-> QualityBadge(safe_get_height(best_video)),
               height |-> safe_get_height(best_video),
               filesize |-> FileSizeOf(best_video)]>>

quality_targets == <<2160, 1440, 1080, 720, 480, 360, 240>>
quality_labels ==
    <<"4K Ultra HD", "2K QHD", "1080p Full HD", "720p HD", "480p SD", "360p", "240p Low">>

Abs(n) == IF n < 0 THEN 0 - n ELSE n
WithinTolerance(f, target) == Abs(safe_get_height(f) - target) <= 20

\* the formats one ladder step emits, as indices into all_video: the first
\* within the tolerance (seen_qualities and the break of line 713)
LadderPickEveryMatch(all_video, target) ==
    {i \in 1..Len(all_video) : WithinTolerance(all_video[i], target)}
LadderPick(all_video, target) ==
    LET hits == {i \in 1..Len(all_video) : WithinTolerance(all_video[i], target)}
    IN IF hits = {} THEN {} ELSE {CHOOSE i \in hits : \A j \in hits : i <= j}

\* the picked indices in ascending order
RECURSIVE Ascending(_)
Ascending(S) ==
    IF S = {} THEN << >>
    ELSE LET least == CHOOSE i \in S : \A j \in S : i <= j
         IN <<least>> \o Ascending(S \ {least})

LadderEntry(fmt, step) ==
    [id |-> fmt.format_id, label |-> quality_labels[step], type |-> "video",
     height |-> safe_get_height(fmt), filesize |-> FileSizeOf(fmt)]

\* lines 699-714: the entries of ladder steps step..7
RECURSIVE LadderEntries(_, _)
LadderEntries(all_video, step) ==
    IF step > Len(quality_targets) THEN << >>
    ELSE LET picked == Ascending(LadderPick(all_video, quality_targets[step]))
         IN [k \in 1..Len(picked) |-> LadderEntry(all_video[picked[k]], step)]
            \o LadderEntries(all_video, step + 1)

\* sorted(audio_only, key=tbr or 0, reverse=True): descending and stable
RECURSIVE InsertByBitrate(_, _)
InsertByBitrate(sorted, f) ==
    IF sorted = << >> THEN <<f>>
    ELSE IF get_bitrate(f) > get_bitrate(Head(sorted)) THEN <<f>> \o sorted
    ELSE <<Head(sorted)>> \o InsertByBitrate(Tail(sorted), f)
RECURSIVE SortAudio(_, _)
SortAudio(audio, acc) ==
    IF audio = << >> THEN acc
    ELSE SortAudio(Tail(audio), InsertByBitrate(acc, Head(audio)))

AudioEntry(f, label) ==
    [id |-> f.format_id, label |-> label, type |-> "audio", filesize |-> FileSizeOf(f)]

\* lines 716-741
AudioEntries(audio_only) ==
    LET sorted_audio == SortAudio(audio_only, << >>)
    IN IF sorted_audio = << >> THEN << >>
       ELSE <<AudioEntry(sorted_audio[1], "Audio - Best Quality")>>
            \o (IF Len(sorted_audio) > 2
                THEN <<AudioEntry(sorted_audio[(Len(sorted_audio) \div 2) + 1],
                                  "Audio - Medium Quality")>>
                ELSE << >>)

\* get_recommended_formats(info), on info.formats; the description text of
\* an entry is left out
get_recommended_formats(formats) ==
    BestEntry(all_video_of(formats))
    \o LadderEntries(all_video_of(formats), 1)
    \o AudioEntries(SelectSeq(formats, IsAudioOnly))

\* the description of an entry calls ext.upper() (lines 679, 709, 727, 737):
\* an AttributeError when the format it is built from has no ext
RecommendRaises(formats) ==
    LET all_video == all_video_of(formats)
        sorted_audio == SortAudio(SelectSeq(formats, IsAudioOnly), << >>)
    IN \/ /\ all_video # << >>
          /\ all_video[BestVideoIndex(all_video)].ext = None
       \/ \E step \in 1..Len(quality_targets) :
              \E i \in LadderPick(all_video, quality_targets[step]) :
                  all_video[i].ext = None
       \/ /\ sorted_audio # << >>
          /\ \/ sorted_audio[1].ext = None
             \/ /\ Len(sorted_audio) > 2
                /\ sorted_audio[(Len(sorted_audio) \div 2) + 1].ext = None

NoneUpperError == "'NoneType' object has no attribute 'upper'"

\* the recommendations of a normalized format list, or the exception
recommend ==
    /\ fn.op = "normalized"
    /\ fn' = IF RecommendRaises(fn.formats)
             THEN [op |-> "recommend_raised", raw |-> fn.raw, formats |-> fn.formats,
                   error |-> NoneUpperError]
             ELSE [op |-> "recommended", raw |-> fn.raw, formats |-> fn.formats,
                   recommendations |-> get_recommended_formats(fn.formats)]
    /\ UNCHANGED <<active_tasks, progress_callbacks, pc, engine_info, engine_opts, ret, ex,
                   download_status, cache_files, threads>>

NextRecommend ==
    \/ normalize
    \/ recommend

SpecRecommend == InitNormalize /\ [][NextRecommend]_vars

----------------------------------------------------------------------------
(* server.py: cleanup_old_cache, the eviction of CACHE_DIR *)

MaxFiles == 3
MaxRaces == 1

Hour == 3600
MB == 1024 * 1024
\* time.time() of line 132
Now == 72 * Hour

\* a directory entry: its name and what os.path.isfile and os.stat report
DirEntry(name, age_hours, size_mb, is_file) ==
    [name |-> name, is_file |-> is_file,
     st_mtime |-> Now - age_hours * Hour, st_size |-> size_mb * MB]

SampleEntries ==
    {DirEntry("def456.mp3", 30, 600, TRUE),
     DirEntry("abc123.m4a", 2, 40, TRUE),
     DirEntry("twin02.mp3", 2, 100, TRUE),
     DirEntry("big500.opus", 1, 500, TRUE),
     DirEntry("edge24.ogg", 24, 1, TRUE),
     DirEntry("old048.webm", 48, 10, TRUE),
     DirEntry("parts", 30, 4, FALSE)}

EntryNames == {e.name : e \in SampleEntries}
Stat(name) == CHOOSE e \in SampleEntries : e.name = name

\* the directories the pass can start from
SampleDirs == {d \in SUBSET EntryNames : Cardinality(d) <= MaxFiles}

MaxAgeHours == {24, 1}
MaxSizeMbs == {500, 100}

\* os.listdir returns the names in an order of its own choosing
Listings(names) ==
    {order \in [1..Cardinality(names) -> names] :
        \A i, j \in 1..Cardinality(names) : i # j => order[i] # order[j]}

\* lines 120-124: the (path, mtime, size) of every regular file, in listing order
RECURSIVE StatFiles(_)
StatFiles(order) ==
    IF order = << >> THEN << >>
    ELSE IF Stat(Head(order)).is_file
         THEN <<[path |-> Head(order), mtime |-> Stat(Head(order)).st_mtime,
                 size |-> Stat(Head(order)).st_size]>> \o StatFiles(Tail(order))
         ELSE StatFiles(Tail(order))

RECURSIVE SumSizes(_)
SumSizes(files) == IF files = << >> THEN 0 ELSE Head(files).size + SumSizes(Tail(files))

\* the order of the sort key (x[1], the modification time)
MtimeBeforeNever(f, g) == FALSE
MtimeBefore(f, g) == f.mtime < g.mtime

\* files.sort(key=lambda x: x[1]): ascending and stable
RECURSIVE InsertByMtime(_, _)
InsertByMtime(sorted, f) ==
    IF sorted = << >> THEN <<f>>
    ELSE IF MtimeBefore(f, Head(sorted)) THEN <<f>> \o sorted
    ELSE <<Head(sorted)>> \o InsertByMtime(Tail(sorted), f)
RECURSIVE SortByMtime(_, _)
SortByMtime(files, acc) ==
    IF files = << >> THEN acc
    ELSE SortByMtime(Tail(files), InsertByMtime(acc, Head(files)))

\* line 135 with the size test left out
MustRemoveByAgeOnly(f, total_size, max_age_hours, max_size_mb) ==
    Now - f.mtime > max_age_hours * Hour
\* line 135: age_hours > max_age_hours or total_size > max_size_mb * 1024 * 1024
MustRemove(f, total_size, max_age_hours, max_size_mb) ==
    \/ Now - f.mtime > max_age_hours * Hour
    \/ total_size > max_size_mb * MB

\* after an exception in the loop body the except clause of line 139 is all
\* that is left of the pass
AfterRemoveError(pass) ==
    [pass EXCEPT !.pc = "returned", !.error = Some("[Errno 2] No such file or directory")]

\* lines 117-129: the call lists the directory, stats its files and sorts them
cleanup_old_cache(max_age_hours, max_size_mb) ==
    /\ fn.op = "idle"
    /\ \E order \in Listings(cache_files) :
          LET files == StatFiles(order)
          IN fn' = [op |-> "cleanup_old_cache", pc |-> "walk",
                    max_age_hours |-> max_age_hours, max_size_mb |-> max_size_mb,
                    files |-> SortByMtime(files, << >>), i |-> 1,
                    total_size |-> SumSizes(files), error |-> None, races |-> 0]
    /\ UNCHANGED <<active_tasks, progress_callbacks, pc, engine_info, engine_opts, ret, ex,
                   download_status, cache_files, threads>>

\* lines 133-138: one turn of the loop; os.remove of a file that is no longer
\* there raises
cleanup_examine ==
    /\ fn.op = "cleanup_old_cache"
    /\ fn.pc = "walk"
    /\ fn.i <= Len(fn.files)
    /\ LET f == fn.files[fn.i]
       IN IF MustRemove(f, fn.total_size, fn.max_age_hours, fn.max_size_mb)
          THEN IF f.path \in cache_files
               THEN /\ cache_files' = cache_files \ {f.path}
                    /\ fn' = [fn EXCEPT !.i = fn.i + 1, !.total_size = fn.total_size - f.size]
               ELSE /\ fn' = AfterRemoveError(fn)
                    /\ UNCHANGED cache_files
          ELSE /\ fn' = [fn EXCEPT !.i = fn.i + 1]
               /\ UNCHANGED cache_files
    /\ UNCHANGED <<active_tasks, progress_callbacks, pc, engine_info, engine_opts, ret, ex,
                   download_status, threads>>

\* the loop is over: the function returns None
cleanup_returns ==
    /\ fn.op = "cleanup_old_cache"
    /\ fn.pc = "walk"
    /\ fn.i > Len(fn.files)
    /\ fn' = [fn EXCEPT !.pc = "returned"]
    /\ UNCHANGED <<active_tasks, progress_callbacks, pc, engine_info, engine_opts, ret, ex,
                   download_status, cache_files, threads>>

\* someone else removes a cached file while the pass runs
file_disappears(name) ==
    /\ fn.op = "cleanup_old_cache"
    /\ fn.pc = "walk"
    /\ fn.races < MaxRaces
    /\ name \in cache_files
    /\ cache_files' = cache_files \ {name}
    /\ fn' = [fn EXCEPT !.races = fn.races + 1]
    /\ UNCHANGED <<active_tasks, progress_callbacks, pc, engine_info, engine_opts, ret, ex,
                   download_status, threads>>

\* a download writes a new file into the directory while the pass runs
file_appears(name) ==
    /\ fn.op = "cleanup_old_cache"
    /\ fn.pc = "walk"
    /\ fn.races < MaxRaces
    /\ name \notin cache_files
    /\ \A k \in 1..Len(fn.files) : fn.files[k].path # name
    /\ cache_files' = cache_files \cup {name}
    /\ fn' = [fn EXCEPT !.races = fn.races + 1]
    /\ UNCHANGED <<active_tasks, progress_callbacks, pc, engine_info, engine_opts, ret, ex,
                   download_status, threads>>

----------------------------------------------------------------------------
(* ytdlp_handler.py: cleanup_old_files, the age bound of download_dir.    *)
(* fn.dir is the content of download_dir.                                 *)

\* lines 748-752: the call lists download_dir
cleanup_old_files(max_age_hours) ==
    /\ fn.op = "download_dir"
    /\ \E order \in Listings(fn.dir) :
          fn' = [op |-> "cleanup_old_files", pc |-> "isfile",
                 max_age_hours |-> max_age_hours, listing |-> order, i |-> 1,
                 dir |-> fn.dir, error |-> None, races |-> 0]
    /\ UNCHANGED <<active_tasks, progress_callbacks, pc, engine_info, engine_opts, ret, ex,
                   download_status, cache_files, threads>>

\* line 754: os.path.isfile(filepath), False for a name that is gone
files_isfile ==
    /\ fn.op = "cleanup_old_files"
    /\ fn.pc = "isfile"
    /\ fn.i <= Len(fn.listing)
    /\ LET filename == fn.listing[fn.i]
       IN fn' = IF filename \in fn.dir /\ Stat(filename).is_file
                THEN [fn EXCEPT !.pc = "getmtime"]
                ELSE [fn EXCEPT !.i = fn.i + 1]
    /\ UNCHANGED <<active_tasks, progress_callbacks, pc, engine_info, engine_opts, ret, ex,
                   download_status, cache_files, threads>>

\* lines 755-756: os.path.getmtime is outside the try: for a name that is
\* gone its exception leaves the function
files_getmtime ==
    /\ fn.op = "cleanup_old_files"
    /\ fn.pc = "getmtime"
    /\ LET filename == fn.listing[fn.i]
       IN fn' = IF filename \notin fn.dir
                THEN [fn EXCEPT !.pc = "raised",
                                !.error = Some("[Errno 2] No such file or directory")]
                ELSE IF Now - Stat(filename).st_mtime > fn.max_age_hours * Hour
                THEN [fn EXCEPT !.pc = "remove"]
                ELSE [fn EXCEPT !.pc = "isfile", !.i = fn.i + 1]
    /\ UNCHANGED <<active_tasks, progress_callbacks, pc, engine_info, engine_opts, ret, ex,
                   download_status, cache_files, threads>>

\* lines 757-760: os.remove inside try / except Exception: pass
files_remove ==
    /\ fn.op = "cleanup_old_files"
    /\ fn.pc = "remove"
    /\ fn' = [fn EXCEPT !.pc = "isfile", !.i = fn.i + 1,
                        !.dir = fn.dir \ {fn.listing[fn.i]}]
    /\ UNCHANGED <<active_tasks, progress_callbacks, pc, engine_info, engine_opts, ret, ex,
                   download_status, cache_files, threads>>

\* the loop is over: the function returns None
files_returns ==
    /\ fn.op = "cleanup_old_files"
    /\ fn.pc = "isfile"
    /\ fn.i > Len(fn.listing)
    /\ fn' = [fn EXCEPT !.pc = "returned"]
    /\ UNCHANGED <<active_tasks, progress_callbacks, pc, engine_info, engine_opts, ret, ex,
                   download_status, cache_files, threads>>

\* someone else removes a downloaded file while the call runs
download_disappears(name) ==
    /\ fn.op = "cleanup_old_files"
    /\ fn.pc \in {"isfile", "getmtime", "remove"}
    /\ fn.races < MaxRaces
    /\ name \in fn.dir
    /\ fn' = [fn EXCEPT !.dir = fn.dir \ {name}, !.races = fn.races + 1]
    /\ UNCHANGED <<active_tasks, progress_callbacks, pc, engine_info, engine_opts, ret, ex,
                   download_status, cache_files, threads>>

InitEvict ==
    /\ active_tasks = << >>
    /\ progress_callbacks = {}
    /\ pc = << >>
    /\ engine_info = << >>
    /\ engine_opts = << >>
    /\ ret = None
    /\ ex = ExIdle
    /\ download_status = << >>
    /\ threads = << >>
    /\ \/ cache_files \in SampleDirs /\ fn = FnIdle
       \/ cache_files = {} /\ fn \in {[op |-> "download_dir", dir |-> dir] : dir \in SampleDirs}

NextEvict ==
    \/ \E max_age_hours \in MaxAgeHours, max_size_mb \in MaxSizeMbs :
          cleanup_old_cache(max_age_hours, max_size_mb)
    \/ cleanup_examine
    \/ cleanup_returns
    \/ \E name \in EntryNames : file_disappears(name)
    \/ \E name \in EntryNames : file_appears(name)
    \/ \E max_age_hours \in MaxAgeHours : cleanup_old_files(max_age_hours)
    \/ files_isfile
    \/ files_getmtime
    \/ files_remove
    \/ files_returns
    \/ \E name \in EntryNames : download_disappears(name)

SpecEvict == InitEvict /\ [][NextEvict]_vars

----------------------------------------------------------------------------
(* Properties of the task manager (checked under Spec) *)

NonTerminal == {PENDING, EXTRACTING, DOWNLOADING, PROCESSING}

StatusOf(t) == active_tasks[t].status

\* one step of the state machine PENDING -> EXTRACTING -> DOWNLOADING ->
\* PROCESSING -> COMPLETED, with FAILED and CANCELLED reachable from every
\* non-terminal state
ValidMove(a, b) ==
    \/ a = b
    \/ <<a, b>> \in {<<PENDING, EXTRACTING>>, <<EXTRACTING, DOWNLOADING>>,
                     <<DOWNLOADING, PROCESSING>>, <<PROCESSING, COMPLETED>>}
    \/ a \in NonTerminal /\ b \in {FAILED, CANCELLED}

\* C1: every change of a task's status is a step of the state machine: no
\* backward transition, no skipped intermediate state, FAILED and CANCELLED
\* entered only from a non-terminal state.
C1_StatusFollowsStateMachine ==
    [][\A t \in Registered : ValidMove(StatusOf(t), active_tasks'[t].status)]_vars

\* C2: a task that is CANCELLED stays CANCELLED, whatever the engine reports
\* or returns afterwards.
C2_CancelledStays ==
    [][\A t \in Registered : StatusOf(t) = CANCELLED => active_tasks'[t].status = CANCELLED]_vars

\* C3: COMPLETED and FAILED are absorbing: no later step changes a status
\* that is COMPLETED or FAILED.
C3_CompletedFailedAbsorbing ==
    [][\A t \in Registered :
          StatusOf(t) \in {COMPLETED, FAILED} => active_tasks'[t].status = StatusOf(t)]_vars

IsCancelReturn == ret # None /\ Val(ret).op = "cancel_task"

\* C4: cancel returns true exactly when the task exists and its status at the
\* call is PENDING, EXTRACTING, DOWNLOADING or PROCESSING (so not for a task
\* that is already CANCELLED), and after a true return the status is CANCELLED.
C4_CancelTrueIffNonTerminal ==
    IsCancelReturn =>
        /\ Val(ret).result <=> Val(ret).before \in NonTerminal
        /\ Val(ret).result => StatusOf(Val(ret).task_id) = CANCELLED

\* C5: cancel of a task that is COMPLETED or FAILED, or of an id that is not
\* in the registry, returns false and changes no task, no field and not the
\* registry's key set.
C5_CancelOfFinishedIsNoOp ==
    [][(ret' # None /\ Val(ret').op = "cancel_task"
            /\ Val(ret').before \in {COMPLETED, FAILED, "missing"})
        => /\ Val(ret').result = FALSE
           /\ active_tasks' = active_tasks
           /\ progress_callbacks' = progress_callbacks
           /\ pc' = pc
           /\ engine_info' = engine_info
           /\ engine_opts' = engine_opts]_vars

\* a cancel of a COMPLETED task has just returned false
C5_Witness ==
    /\ IsCancelReturn
    /\ Val(ret).before = COMPLETED
    /\ Val(ret).result = FALSE
    /\ StatusOf(Val(ret).task_id) = COMPLETED

\* line 617: download_video has handed the task back to its caller
Returned(t) == pc[t] = "done"

\* C10: the call that starts a download does not wait for the engine: the
\* caller has the task back in every state in which the task is registered,
\* in particular while the engine's download call is running.
C10_StartDoesNotWaitForEngine ==
    \A t \in Registered : Returned(t)

----------------------------------------------------------------------------
(* Properties of extract_info (checked under SpecExtract and SpecErrors) *)

Attempted(k) == ex.attempts[k].outcome # "calling"

\* C6: an extraction that ends in failure has invoked the engine once for
\* every strategy of the selector, in the selector's order; neither a raising
\* call nor an empty result ends the iteration early
C6_FailureAfterEveryStrategy ==
    ex.pc = "failed" =>
        LET strategies == get_extraction_strategies(ex.url)
        IN /\ Len(ex.attempts) = Len(strategies)
           /\ \A k \in 1..Len(strategies) :
                  /\ ex.attempts[k].strategy = strategies[k].name
                  /\ Attempted(k)

C6_Witness ==
    /\ ex.pc = "failed"
    /\ Len(ex.attempts) = 5
    /\ ex.attempts[1].outcome = "raised"
    /\ ex.attempts[2].outcome = "empty"
    /\ ex.attempts[5].outcome = "raised"

\* C7: the strategies are invoked in selector order, one call at a time, and
\* the first call returning non-empty metadata ends the extraction: it is the
\* last call made, every earlier one failed, and the result is the
\* normalization of its metadata
C7_FirstMetadataEndsExtraction ==
    ex.pc # "idle" =>
        LET strategies == get_extraction_strategies(ex.url)
            n == Len(ex.attempts)
        IN /\ n <= Len(strategies)
           /\ \A k \in 1..n : ex.attempts[k].strategy = strategies[k].name
           /\ \A k \in 1..n : ex.attempts[k].outcome = "calling" => k = n
           /\ \A k \in 1..n :
                  ex.attempts[k].outcome = "metadata" =>
                      /\ k = n
                      /\ \A j \in 1..(k - 1) : ex.attempts[j].outcome \in {"raised", "empty"}
                      /\ ex.pc = "returned"
                      /\ ex.result = Some(parse_video_info(ex.attempts[k].info, ex.url))

\* every engine call of the attempts raised or returned empty metadata
EveryStrategyFailed(attempts) ==
    \A k \in 1..Len(attempts) : attempts[k].outcome \in {"raised", "empty"}

\* the text of the last engine call that raised; the default text of
\* line 230 when no call raised
LastFailureText(attempts) ==
    LET raised == {k \in 1..Len(attempts) : attempts[k].outcome = "raised"}
    IN IF raised = {} THEN AllFailedMessage
       ELSE Val(attempts[CHOOSE k \in raised : \A j \in raised : j <= k].text)

\* the translation the specification describes
C8_Translate(e) ==
    CASE Contains(e, "Sign in") \/ Contains(e, "bot") -> AuthMessage
      [] ~(Contains(e, "Sign in") \/ Contains(e, "bot")) /\ Contains(Lower(e), "format")
            -> FormatMessage
      [] OTHER -> e

\* C8: when every strategy failed, extract_info surfaces the translation of
\* the text of the last raising engine call, and a task that becomes FAILED
\* stores the translation of the text of the exception that failed it
C8_ErrorsAreTranslated ==
    [][ /\ (extract_fails /\ EveryStrategyFailed(ex.attempts)) =>
               ex'.error = Some(C8_Translate(LastFailureText(ex.attempts)))
        /\ \A t \in TaskIds :
               /\ \A text \in EngineErrors :
                      download_raises(t, text) =>
                          active_tasks'[t].error = Some(C8_Translate(text))
               /\ (download_parse(t) /\ active_tasks'[t].status = FAILED) =>
                      active_tasks'[t].error = Some(C8_Translate(ParseError(engine_info[t])))
               /\ \A disk \in CoreDisks :
                      (download_locate(t, disk) /\ active_tasks'[t].status = FAILED) =>
                          active_tasks'[t].error = Some(C8_Translate(ListDirError))
      ]_vars

C8_Witness ==
    /\ ex.pc = "failed"
    /\ EveryStrategyFailed(ex.attempts)
    /\ Contains(LastFailureText(ex.attempts), "Sign in")
    /\ Contains(LastFailureText(ex.attempts), "format")
    /\ ex.error = Some(AuthMessage)
    /\ \E t \in Registered :
           /\ active_tasks[t].status = FAILED
           /\ active_tasks[t].error = Some(FormatMessage)

----------------------------------------------------------------------------
(* Properties of the download operations (checked under SpecDownload) *)

\* lines 584-589: download_video hands one engine call to the executor
EngineDownloads(t) == IF t \in Registered THEN 1 ELSE 0

\* C9: a download ends in failure (task FAILED, status 'error') only after
\* the engine's download was attempted under every strategy of the fallback
\* list in order, and it stops at the first strategy whose download
\* produces the artifact
C9_DownloadFollowsFallback ==
    /\ \A t \in Registered :
           active_tasks[t].status = FAILED =>
               EngineDownloads(t) = Len(get_extraction_strategies(active_tasks[t].url))
    /\ \A th \in 1..Len(threads) :
           LET thread == threads[th]
               n == Len(thread.tried)
           IN /\ \A k \in 1..n : thread.tried[k] = YOUTUBE_STRATEGIES[k].name
              /\ (thread.pc = "done" /\ thread.result = None) => n = Len(YOUTUBE_STRATEGIES)
              /\ \A k \in 1..n :
                     thread.produced[k] => (k = n /\ thread.pc \in {"verify", "done"})
              /\ (thread.pc = "done" /\ n > 0 /\ thread.produced[n]) => thread.result # None

----------------------------------------------------------------------------
(* Properties of the registry (checked under SpecRegistry) *)

IsGetTaskReturn == ret # None /\ Val(ret).op = "get_task"

----------------------------------------------------------------------------
(* Properties of the format selector (checked under SpecFormats) *)

\* the format list of the media, as extract_info gave it to the client
MediaFormats == parse_video_info(GoodInfo, "https://music.youtube.com/watch?v=abc").formats

VideoOnlyIds ==
    {MediaFormats[i].format_id : i \in {j \in 1..Len(MediaFormats) : MediaFormats[j].is_video_only}}

\* the selector's first alternative merges the format with best audio
MergesBestAudio(selector, format_id) ==
    /\ Len(selector) > Len(format_id) + Len("+bestaudio")
    /\ SubSeq(selector, 1, Len(format_id) + Len("+bestaudio")) = format_id \o "+bestaudio"

\* C12: a download of a specific format id that is video-only in the media's
\* format list, without audio_only, gives the engine a selector that merges
\* the format with best audio, never the bare format id
C12_VideoOnlyGetsAudioMerged ==
    \A t \in Registered :
        (~engine_opts[t].audio_only /\ engine_opts[t].format_id \in VideoOnlyIds)
            => MergesBestAudio(engine_opts[t].format, engine_opts[t].format_id)

----------------------------------------------------------------------------
(* Properties of the progress and error fields (checked under SpecProgress *)
(* and Spec)                                                               *)

\* C13: within the run of a task the progress never decreases, also when a
\* second stream of the download starts after the first one finished
C13_ProgressNeverDecreases ==
    [][\A t \in Registered : active_tasks'[t].progress >= active_tasks[t].progress]_vars

\* C14: the progress of every task is between 0 and 100, whatever byte
\* counters the events carry
C14_ProgressWithinBounds ==
    \A t \in Registered : active_tasks[t].progress >= 0 /\ active_tasks[t].progress <= 100

----------------------------------------------------------------------------
(* Properties of the normalizer (checked under SpecNormalize) *)

RawId(fmt) == Get(fmt, "format_id", None)

\* a raw entry the normalizer must drop: a storyboard note in any letter
\* case, a container of the denylist, or both codecs absent or 'none'
Rejected(fmt) ==
    \/ /\ Get(fmt, "format_note", Some("")) # None
       /\ Contains(Lower(Val(Get(fmt, "format_note", Some("")))), "storyboard")
    \/ /\ Get(fmt, "ext", Some("")) # None
       /\ Lower(Val(Get(fmt, "ext", Some("")))) \in DeniedExts
    \/ /\ fmt.vcodec \in {Absent, P("none")}
       /\ fmt.acodec \in {Absent, P("none")}

\* C16: the normalized list holds no entry without a format id, no entry
\* whose codecs are both absent, and no entry made from a raw format with a
\* storyboard note, a denied container or no codec at all
C16_NoRejectedEntryInOutput ==
    fn.op = "normalized" =>
        /\ \A k \in 1..Len(fn.formats) :
               /\ fn.formats[k].format_id # ""
               /\ fn.formats[k].ext # None => Lower(Val(fn.formats[k].ext)) \notin DeniedExts
               /\ ~(fn.formats[k].vcodec = None /\ fn.formats[k].acodec = None)
        /\ \A i \in 1..Len(fn.raw) :
               Rejected(fn.raw[i]) =>
                   \A k \in 1..Len(fn.formats) : Some(fn.formats[k].format_id) # RawId(fn.raw[i])

\* C17: every normalized format has a video codec or an audio codec, and is
\* never audio-only and video-only at once
C17_CodecPresentAndFlagsExclusive ==
    fn.op = "normalized" =>
        \A k \in 1..Len(fn.formats) :
            /\ fn.formats[k].vcodec # None \/ fn.formats[k].acodec # None
            /\ ~(fn.formats[k].is_audio_only /\ fn.formats[k].is_video_only)

\* height and bitrate of a normalized format (no resolution: height 0, no
\* bitrate: 0)
EntryHeight(f) == get_resolution_height(f)
EntryBitrate(f) == IF f.tbr = None THEN 0 ELSE Val(f.tbr)
EntryKey(f) == <<f.is_audio_only, EntryHeight(f), EntryBitrate(f)>>

\* C18: in the normalized list every entry that is not audio-only comes
\* before every audio-only entry; inside each group height never increases
\* and, at equal height, bitrate never increases; entries equal on all three
\* keep the order they had in the input
C18_SortedAndStable ==
    fn.op = "normalized" =>
        /\ \A i, j \in 1..Len(fn.formats) :
               i < j =>
                   /\ ~(fn.formats[i].is_audio_only /\ ~fn.formats[j].is_audio_only)
                   /\ fn.formats[i].is_audio_only = fn.formats[j].is_audio_only =>
                          /\ EntryHeight(fn.formats[i]) >= EntryHeight(fn.formats[j])
                          /\ EntryHeight(fn.formats[i]) = EntryHeight(fn.formats[j]) =>
                                 EntryBitrate(fn.formats[i]) >= EntryBitrate(fn.formats[j])
        /\ Len(fn.formats) = Len(FilterFormats(fn.raw))
        /\ \A k \in 1..Len(fn.formats) :
               LET SameKey(f) == EntryKey(f) = EntryKey(fn.formats[k])
               IN SelectSeq(fn.formats, SameKey) = SelectSeq(FilterFormats(fn.raw), SameKey)

C18_Witness ==
    /\ fn.op = "normalized"
    /\ fn.raw = <<Audio140, Video299, Video137>>
    /\ fn.formats[1].format_id = "299"
    /\ fn.formats[2].format_id = "137"
    /\ fn.formats[3].format_id = "140"

----------------------------------------------------------------------------
(* Properties of the strategy selector (checked under SpecStrategies) *)

KnownDomains ==
    {"youtube.com", "youtu.be", "instagram.com", "instagr.am", "tiktok.com",
     "twitter.com", "x.com"}

NoKnownDomain(url) == \A d \in KnownDomains : ~Contains(Lower(url), d)

\* C19: the selector gives every url a non-empty list, the same list on every
\* call, and touches no state; a url holding no known platform domain gets
\* the three generic strategies: default configuration, request headers
\* stripped, geo-bypass forced
C19_SelectorTotalAndGenericFallback ==
    [][ select_strategies =>
            LET result == fn'.results[Len(fn'.results)]
            IN /\ Len(result) >= 1
               /\ \A k \in 1..Len(fn.results) : fn.results[k] = result
               /\ NoKnownDomain(fn.url) =>
                      /\ Len(result) = 3
                      /\ result[1] = [name |-> "Default", opts |-> {}]
                      /\ result[2] = [name |-> "No Browser Headers",
                                      opts |-> {<<"http_headers", "{}">>}]
                      /\ result[3] = [name |-> "With Geo Bypass",
                                      opts |-> {<<"geo_bypass", "True">>,
                                                <<"geo_bypass_country", "US">>}]
               /\ UNCHANGED <<active_tasks, progress_callbacks, pc, engine_info, engine_opts,
                              ret, ex, download_status, cache_files, threads>>
      ]_vars

C19_Witness ==
    /\ fn.op = "strategies"
    /\ fn.url = "https://soundcloud.com/watch?v=abc"
    /\ Len(fn.results) = 2
    /\ Len(fn.results[2]) = 3

----------------------------------------------------------------------------
(* Properties of the recommendations (checked under SpecRecommend) *)

\* the entries emitted for the ladder step of the given target: the video
\* entries other than the 'Best Quality' one whose height is within the
\* tolerance of the target
StepEntries(recommendations, target) ==
    {k \in 1..Len(recommendations) :
        /\ recommendations[k].type = "video"
        /\ "badge" \notin DOMAIN recommendations[k]
        /\ Abs(recommendations[k].height - target) <= 20}

\* C20: the recommendations hold at most one entry for each step of the
\* quality ladder, and the format id of every entry is the id of a format
\* of the input
C20_OnePerStepAndKnownIds ==
    fn.op = "recommended" =>
        /\ \A target \in {2160, 1440, 1080, 720, 480, 360, 240} :
               Cardinality(StepEntries(fn.recommendations, target)) <= 1
        /\ \A k \in 1..Len(fn.recommendations) :
               \E i \in 1..Len(fn.formats) :
                   fn.formats[i].format_id = fn.recommendations[k].id

\* two formats of height 1080 and one audio format: one entry for the step
C20_Witness ==
    /\ fn.op = "recommended"
    /\ fn.raw = <<Video137, Audio140, Video299>>
    /\ Len(fn.recommendations) = 3
    /\ Cardinality(StepEntries(fn.recommendations, 1080)) = 1


----------------------------------------------------------------------------
(* Properties of the recommendations (checked under SpecRecommend) *)

\* the combined and video-only formats of a list
NonAudio(formats) == {i \in 1..Len(formats) : ~formats[i].is_audio_only}

HeightBitrateLeq(a, b) ==
    \/ safe_get_height(a) < safe_get_height(b)
    \/ /\ safe_get_height(a) = safe_get_height(b)
       /\ get_bitrate(a) <= get_bitrate(b)

IsBestQualityLabel(label) ==
    Len(label) >= 15 /\ SubSeq(label, 1, 15) = "Best Quality - "

\* C21: recommend never fails and gives the empty list for an empty format
\* list; when the input holds a combined or video-only format, the first
\* entry is the "Best Quality" entry and it is built from a format that is
\* a maximum of the non-audio-only formats under (height, then bitrate).
C21_RecommendTotalAndBestFirst ==
    /\ fn.op # "recommend_raised"
    /\ fn.op = "recommended" =>
          /\ fn.formats = << >> => fn.recommendations = << >>
          /\ NonAudio(fn.formats) # {} =>
                /\ fn.recommendations # << >>
                /\ IsBestQualityLabel(fn.recommendations[1].label)
                /\ \E i \in NonAudio(fn.formats) :
                      /\ fn.formats[i].format_id = fn.recommendations[1].id
                      /\ safe_get_height(fn.formats[i]) = fn.recommendations[1].height
                      /\ \A j \in NonAudio(fn.formats) :
                            HeightBitrateLeq(fn.formats[j], fn.formats[i])

\* two formats of one height are ranked by bitrate: the combined 720p
\* format without bitrate comes first in all_video, the video-only one wins
C21_Witness ==
    /\ fn.op = "recommended"
    /\ \E i, j \in NonAudio(fn.formats) :
          /\ fn.formats[i].format_id = "22"
          /\ fn.formats[j].format_id = "136"
    /\ \A i \in NonAudio(fn.formats) : safe_get_height(fn.formats[i]) <= 720
    /\ fn.recommendations[1].id = "136"

----------------------------------------------------------------------------
(* Properties of the cache eviction (checked under SpecEvict) *)

\* the regular files of a directory and their total size
RegularFiles(names) == {name \in names : Stat(name).is_file}
RECURSIVE DirSize(_)
DirSize(names) ==
    IF RegularFiles(names) = {} THEN 0
    ELSE LET name == CHOOSE n \in RegularFiles(names) : TRUE
         IN Stat(name).st_size + DirSize(names \ {name})

TooOld(name, max_age_hours) == Now - Stat(name).st_mtime > max_age_hours * Hour

\* the pass has returned and nobody else touched the directory meanwhile
ReturnedUndisturbed ==
    fn.op = "cleanup_old_cache" /\ fn.pc = "returned" /\ fn.races = 0

\* C22: after cleanup_old_cache returns, with nobody else changing the
\* directory during the pass, no remaining file is older than max_age_hours
\* and the remaining files together are at most max_size_mb megabytes.
\* cleanup_old_files, which has the age bound only, leaves no file older
\* than its max_age_hours.
C22_BoundsHoldAfterEvict ==
    /\ ReturnedUndisturbed =>
          /\ \A name \in RegularFiles(cache_files) : ~TooOld(name, fn.max_age_hours)
          /\ DirSize(cache_files) <= fn.max_size_mb * MB
    /\ fn.op = "cleanup_old_files" /\ fn.pc = "returned" /\ fn.races = 0 =>
          \A name \in RegularFiles(fn.dir) : ~TooOld(name, fn.max_age_hours)

\* two files young enough to stay, together over the size bound: the first
\* of the walk is removed, the other one stays
C22_Witness ==
    /\ ReturnedUndisturbed
    /\ fn.max_size_mb = 100
    /\ Len(fn.files) = 2
    /\ \A k \in 1..2 : ~TooOld(fn.files[k].path, fn.max_age_hours)
    /\ fn.files[1].path \notin cache_files
    /\ fn.files[2].path \in cache_files

\* C23: a failure while removing one file (the file was removed by someone
\* else after the listing) does not end the pass: every listed file is
\* still examined, no listed file older than the bound is left behind, and
\* the pass ends without an error.
C23_FailureDoesNotAbortPass ==
    /\ fn.op = "cleanup_old_cache" /\ fn.pc = "returned" =>
          /\ fn.error = None
          /\ fn.i > Len(fn.files)
          /\ \A k \in 1..Len(fn.files) :
                fn.files[k].path \in cache_files => ~TooOld(fn.files[k].path, fn.max_age_hours)
    /\ fn.op = "cleanup_old_files" => fn.pc # "raised"
    /\ fn.op = "cleanup_old_files" /\ fn.pc = "returned" =>
          /\ fn.i > Len(fn.listing)
          /\ \A name \in RegularFiles(fn.dir) :
                (\E k \in 1..Len(fn.listing) : fn.listing[k] = name)
                    => ~TooOld(name, fn.max_age_hours)

\* a turn of the loop in a pass nobody else disturbs
IsExamineTurn ==
    /\ fn.op = "cleanup_old_cache" /\ fn.pc = "walk" /\ fn.races = 0
    /\ fn'.pc = "walk" /\ fn'.races = 0 /\ fn'.i = fn.i + 1

TurnFollowsRule ==
    LET f == fn.files[fn.i]
        violates == \/ TooOld(f.path, fn.max_age_hours)
                    \/ DirSize(cache_files) > fn.max_size_mb * MB
    IN /\ \A k \in 1..(fn.i - 1) : fn.files[k].mtime <= f.mtime
       /\ f.path \in cache_files
       /\ IF violates THEN cache_files' = cache_files \ {f.path}
                      ELSE cache_files' = cache_files

RemovedIsPrefix ==
    fn.op = "cleanup_old_cache" /\ fn.races = 0 =>
        \E p \in 0..Len(fn.files) :
            \A k \in 1..Len(fn.files) : (fn.files[k].path \notin cache_files) <=> k <= p

\* C29: the walk is in ascending modification time; a turn removes its file
\* exactly when the file is older than max_age_hours or the files still in
\* the directory (that file included) exceed max_size_mb megabytes; the
\* removed files are a prefix of the walk.
C29_OldestFirstWatermark ==
    /\ [][IsExamineTurn => TurnFollowsRule]_vars
    /\ []RemovedIsPrefix

\* the scenario of the specification: 600 MB of 30 hours go, 40 MB of 2 hours stay
C29_Witness ==
    /\ ReturnedUndisturbed
    /\ fn.max_age_hours = 24 /\ fn.max_size_mb = 500
    /\ Len(fn.files) = 2
    /\ fn.files[1].path = "def456.mp3" /\ fn.files[2].path = "abc123.m4a"
    /\ cache_files = {"abc123.m4a"}

----------------------------------------------------------------------------
(* Properties of the cache lookup (checked under SpecLookup) *)

\* the path of the first extension of the fixed order that has a file
FirstKnownFile(video_id) ==
    LET known == {k \in 1..5 :
                    (video_id \o "." \o <<"m4a", "mp3", "webm", "opus", "ogg">>[k]) \in cache_files}
    IN IF known = {} THEN None
       ELSE Some(CACHE_DIR \o "/" \o video_id \o "." \o
                 <<"m4a", "mp3", "webm", "opus", "ogg">>[CHOOSE k \in known : \A j \in known : k <= j])

\* some download call for the id has returned having written its file
DownloadPlacedFile(video_id) ==
    \E th \in 1..Len(threads) :
        /\ threads[th].video_id = video_id
        /\ \E k \in 1..Len(threads[th].produced) : threads[th].produced[k]

\* a step in which a lookup returns
IsLookupStep == ret' # ret /\ ret' # None /\ Val(ret').op = "lookup"

LookupAnswer ==
    /\ Val(ret').result = FirstKnownFile(Val(ret').video_id)
    /\ DownloadPlacedFile(Val(ret').video_id) => Val(ret').result # None

LookupKeepsState ==
    /\ cache_files' = cache_files
    /\ download_status' = download_status

\* C24: lookup returns the path of the first extension, in the order m4a,
\* mp3, webm, opus, ogg, that has a file of the media id in the cache
\* directory, and "not found" exactly when there is none; a file that a
\* completed download of the id placed in the directory is found; and a
\* lookup changes no file and no download status.
C24_LookupFindsCachedFile == [][IsLookupStep => LookupAnswer /\ LookupKeepsState]_vars

----------------------------------------------------------------------------
(* Properties of concurrent downloads (checked under SpecConcurrent) *)

\* the step is a progress event, an engine return, an engine failure or a
\* cancel of task a
IsStepOf(a) ==
    \/ \E d \in CoreEvents : progress_hook(a, d)
    \/ download_returns(a, GoodInfo)
    \/ download_raises(a, "ERROR: HTTP Error 403: Forbidden")
    \/ cancel_task(a)

\* C25: with several downloads running, a progress event, engine return,
\* engine failure or cancel of one task leaves the record (status, progress,
\* speed, eta, filepath, filesize, error, video_info) of every other task of
\* the registry as it was.
C25_StepOfOneTaskKeepsOthers ==
    [][\A a \in ConcurrentIds :
          IsStepOf(a) => \A b \in Registered \ {a} : active_tasks'[b] = active_tasks[b]]_vars

\* two tasks side by side, each where its own events left it
C25_Witness ==
    /\ Registered = {1, 2}
    /\ active_tasks[1].status = PROCESSING /\ active_tasks[1].progress = 100
    /\ active_tasks[2].status = FAILED /\ active_tasks[2].progress = 50

----------------------------------------------------------------------------
(* Properties of the progress hook (checked under SpecHook) *)

\* neither total_bytes nor an estimate gives a total: the key is missing,
\* None or zero, and the estimate is missing or zero
UnknownTotal(d) ==
    /\ d.total_bytes \in {Absent, Present(None), P(0)}
    /\ d.total_bytes_estimate \in {Absent, P(0)}

\* the text the event carries for a meter: the engine's own string, else the number
MeterText(d, label, number, unit) ==
    IF d.meter[label] # Absent THEN d.meter[label][1]
    ELSE IF d.meter[number] # Absent THEN Some(unit[d.meter[number][1][1]])
    ELSE None

C27_FinishedFixesProgress ==
    [][\A t \in Registered :
          /\ (\E d \in HookEvents : d.status = "finished" /\ progress_hook(t, d))
                => active_tasks'[t].status = PROCESSING /\ active_tasks'[t].progress = 100
          /\ active_tasks[t].status = PROCESSING => active_tasks'[t].progress = 100]_vars

----------------------------------------------------------------------------
(* Publication of the result (checked under SpecRegistry) *)

\* C28: whenever a poller (get_task, or the scan of the registry for
\* completed tasks) can see a task with status COMPLETED, the task's
\* video_info is already set: COMPLETED is never published before the
\* normalized metadata is stored.
C28_CompletedHasVideoInfo ==
    /\ \A t \in Registered :
          active_tasks[t].status = COMPLETED => active_tasks[t].video_info # None
    /\ (IsGetTaskReturn /\ Val(ret).result # None /\ Val(Val(ret).result).status = COMPLETED)
          => Val(Val(ret).result).video_info # None

----------------------------------------------------------------------------
(* Properties of the quality label (checked under SpecLabels) *)

\* the thresholds of the label, greatest first
LabelSteps ==
    <<<<2160, "4K">>, <<1440, "2K">>, <<1080, "1080p HD">>, <<720, "720p HD">>,
      <<480, "480p">>, <<360, "360p">>, <<240, "240p">>>>

\* the number a raw format holds under a key, if the key is there and its
\* value is neither None nor zero
KnownNumber(fmt, key) ==
    IF fmt[key] = Absent \/ fmt[key] = Present(None) \/ fmt[key] = P(0)
    THEN << >> ELSE <<fmt[key][1][1]>>

ExpectedLabel(fmt) ==
    LET height == KnownNumber(fmt, "height")
        abr == KnownNumber(fmt, "abr")
        reached == {k \in 1..Len(LabelSteps) : height # << >> /\ height[1] >= LabelSteps[k][1]}
    IN IF height # << >>
       THEN IF reached = {} THEN ToString(height[1]) \o "p"
            ELSE LabelSteps[CHOOSE k \in reached : \A j \in reached : k <= j][2]
       ELSE IF fmt.vcodec = P("none") /\ fmt.acodec # P("none")
       THEN IF abr # << >> THEN "Audio " \o ToString(abr[1]) \o "kbps" ELSE "Audio"
       ELSE IF fmt.format_note = Absent THEN "Unknown" ELSE fmt.format_note[1][1]

\* C30: the quality label of a kept format follows its height through the
\* thresholds 2160 "4K", 1440 "2K", 1080 "1080p HD", 720 "720p HD", 480
\* "480p", 360 "360p", 240 "240p", below that "<height>p"; without a height
\* an audio-only format is "Audio <bitrate>kbps" when its bitrate is known
\* and "Audio" otherwise; any other format has its format note, or "Unknown"
\* when it has none.
C30_QualityLabelFollowsRule ==
    (fn.op = "normalized" /\ Len(fn.raw) = 1) =>
        \A k \in 1..Len(fn.formats) : fn.formats[k].quality_label = Some(ExpectedLabel(fn.raw[1]))

\* a kept format exactly at a threshold, and one below the last threshold
C30_Witness ==
    /\ fn.op = "normalized"
    /\ Len(fn.raw) = 1 /\ Len(fn.formats) = 1
    /\ fn.raw[1].height = P(1440)
    /\ fn.formats[1].quality_label = Some("2K")

\* the thumbnail candidates of the parsed metadata that carry a url
UrlCandidates ==
    LET thumbnails == Get(fn.info, "thumbnails", Some(<< >>))
    IN IF thumbnails = None THEN {}
       ELSE {Val(thumbnails)[i] : i \in {j \in 1..Len(Val(thumbnails)) :
                                            TruthyStr(Get(Val(thumbnails)[j], "url", None))}}

\* a number field of a candidate, 0 when it is missing or null
CandidateNumber(t, key) ==
    IF Get(t, key, Some(0)) = None THEN 0 ELSE Val(Get(t, key, Some(0)))

\* (preference, width) of s is at most that of t in the lexicographic order
PairLeq(s, t) ==
    \/ CandidateNumber(s, "preference") < CandidateNumber(t, "preference")
    \/ /\ CandidateNumber(s, "preference") = CandidateNumber(t, "preference")
       /\ CandidateNumber(s, "width") <= CandidateNumber(t, "width")

\* the fallback half of the rule: no candidate has a url
ThumbnailFallback ==
    fn.op = "parsed" /\ UrlCandidates = {} =>
        fn.video_info.thumbnail = Get(fn.info, "thumbnail", None)

\* C31: the thumbnail of a VideoInfo is the url of a candidate that is
\* maximal under the lexicographic order on (preference, width) among the
\* candidates with a non-empty url; with no such candidate it is the default
\* thumbnail field of the record, and null when that is absent too
C31_ThumbnailIsLexicographicBest ==
    fn.op = "parsed" =>
        IF UrlCandidates = {}
        THEN fn.video_info.thumbnail = Get(fn.info, "thumbnail", None)
        ELSE \E t \in UrlCandidates :
                /\ \A s \in UrlCandidates : PairLeq(s, t)
                /\ fn.video_info.thumbnail = Get(t, "url", None)

IsVideoEntry(e) == e.type = "video"

\* the video entries of the recommendation list: 'Best Quality', then the
\* ladder steps
VideoEntries == SelectSeq(fn.recommendations, IsVideoEntry)

\* the ladder entries alone never share a format: the targets lie more than
\* twice the tolerance apart
LadderEntriesDistinct ==
    fn.op = "recommended" =>
        \A i, j \in 2..Len(VideoEntries) :
            i # j => VideoEntries[i].id # VideoEntries[j].id

\* C32: a ladder step emits the first non-audio-only format within the
\* tolerance of its target that is not already represented in the output;
\* the format emitted as 'Best Quality' or at an earlier step is never
\* emitted again, so no formatId occurs twice among the video entries of a
\* recommendation list
C32_NoFormatIdTwiceAmongVideoEntries ==
    fn.op = "recommended" =>
        \A i, j \in 1..Len(VideoEntries) :
            i # j => VideoEntries[i].id # VideoEntries[j].id

\* the download threads of a media id that were started and have not
\* returned from download_audio
InFlight(video_id) ==
    {th \in 1..Len(threads) : threads[th].video_id = video_id /\ threads[th].pc # "done"}

\* what the test of line 109 does give: while the status of an id reads
\* 'downloading', no request starts a thread
DownloadingStatusBlocksStart ==
    [][(\A video_id \in VideoIds : StatusIs(video_id, "downloading"))
          => Len(threads') = Len(threads)]_vars

\* C33: for each media id at most one background download is in flight at
\* any time: a request that arrives while a download of the id has been
\* started and has not finished never starts a second download thread
C33_AtMostOneDownloadPerId ==
    \A video_id \in VideoIds : Cardinality(InFlight(video_id)) <= 1

\* download_audio of thread th returns in this step
AudioReturns(th) ==
    /\ th \in 1..Len(threads)
    /\ threads[th].pc # "done"
    /\ threads'[th].pc = "done"

\* the status a returning download_audio leaves, and why
ReturnLeavesVerdict(th) ==
    LET thread == threads[th]
        video_id == thread.video_id
        cached_path == get_cached_audio_path(cache_files, video_id)
        found == thread.pc = "verify" /\ cached_path # None
    IN /\ video_id \in DOMAIN download_status'
       /\ download_status'[video_id] \in {"ready", "error"}
       /\ download_status'[video_id] = "ready" =>
              found /\ threads'[th].result = cached_path
       /\ download_status'[video_id] = "error" <=>
              /\ ~found
              /\ Len(thread.tried) = Len(YOUTUBE_STRATEGIES)
              /\ threads'[th].result = None

\* with every download of the id over, the status is not 'downloading'
FinishedNotDownloading ==
    \A th \in 1..Len(threads) :
        threads[th].pc = "done" /\ InFlight(threads[th].video_id) = {} =>
            /\ threads[th].video_id \in DOMAIN download_status
            /\ download_status[threads[th].video_id] \in {"ready", "error"}
            /\ (download_status[threads[th].video_id] = "ready" =>
                    \E other \in 1..Len(threads) :
                        threads[other].video_id = threads[th].video_id
                        /\ threads[other].result # None)

\* C34: a background audio download never leaves its status at
\* 'downloading' once it has finished: when download_audio(id) returns,
\* download_status[id] is 'ready' or 'error'; 'ready' only if the cache
\* lookup right after some strategy's download found a file for id, and
\* 'error' exactly when no strategy produced such a file
C34_ReturnLeavesReadyOrError ==
    /\ [][\A th \in 1..Len(threads) : AudioReturns(th) => ReturnLeavesVerdict(th)]_vars
    /\ []FinishedNotDownloading

\* download_audio has returned: once 'ready' with the file a later strategy
\* gave, or 'error' after all five strategies
C34_Witness ==
    \E th \in 1..Len(threads) :
        /\ threads[th].pc = "done"
        /\ Len(threads[th].tried) >= 2
        /\ threads[th].result # None
        /\ download_status[threads[th].video_id] = "ready"

C34_WitnessError ==
    \E th \in 1..Len(threads) :
        /\ threads[th].pc = "done"
        /\ threads[th].result = None
        /\ download_status[threads[th].video_id] = "error"

\* the steps the fairness condition speaks of are the engine call ending and
\* the two statements after it
ResumesIsCoroutineStep ==
    [][\A t \in TaskIds :
          /\ Resumes(t, "engine", {"parse", "done"}) =>
                 \/ \E info \in CoreInfos : download_returns(t, info)
                 \/ download_raises(t, "ERROR: HTTP Error 403: Forbidden")
          /\ Resumes(t, "parse", {"locate", "done"}) => download_parse(t)
          /\ Resumes(t, "locate", {"done"}) => \E disk \in CoreDisks : download_locate(t, disk)]_vars

Terminal == {COMPLETED, FAILED, CANCELLED}

\* the execution of task t is over with a final status and without its
\* progress sink
EndedClean(t) ==
    /\ t \in Registered
    /\ pc[t] = "done"
    /\ active_tasks[t].status \in {COMPLETED, FAILED}
    /\ t \notin progress_callbacks

\* C35: every task created by download_video eventually reaches a terminal
\* status (COMPLETED, FAILED or CANCELLED) and does not stay in EXTRACTING,
\* DOWNLOADING or PROCESSING forever, provided the engine call eventually
\* returns or fails and the execution of the task is scheduled fairly; when
\* the execution ends, the progress sink of the task is no longer in the
\* callback registry
C35_TaskEventuallyTerminal ==
    \A t \in TaskIds :
        /\ (t \in Registered) ~> (t \in Registered /\ active_tasks[t].status \in Terminal)
        /\ (t \in Registered) ~> EndedClean(t)
        /\ <>[](t \in Registered => active_tasks[t].status \in Terminal)
        /\ [](t \in Registered /\ pc[t] = "done" => t \notin progress_callbacks)

\* a download that was registered with a progress sink has ended COMPLETED
\* with its metadata
C35_Witness ==
    \E t \in Registered :
        /\ EndedClean(t)
        /\ active_tasks[t].status = COMPLETED
        /\ active_tasks[t].video_info # None
        /\ active_tasks[t].progress > 0
====
